---------------------------- MODULE Spec2Model ----------------------------
(***************************************************************************)
(* A model of the game-log pipeline of the fantasy basketball scraper:     *)
(* get_player_data of src/functions.py, from the <td> cells of the fetched *)
(* page to the two record sets it returns.                                 *)
(*                                                                         *)
(* Cell texts are strings, read character by character with SubSeq where   *)
(* the code does so (r[0], the regular expressions, split(":"), int(),     *)
(* float()).  A value held in a data frame is a tagged record (Str, Int,   *)
(* Flt, None, NaN, Inf): a frame column may hold texts and numbers at the  *)
(* same time, as a pandas object column does.  Floating-point values are   *)
(* kept as an integer number of thousandths.                               *)
(***************************************************************************)
EXTENDS Integers, Sequences, FiniteSets, TLC

VARIABLES
    pc,           \* the position reached in get_player_data
    page,         \* the texts of the <td class=center|left|right> cells of the page
    table,        \* soup.find_all(...)[7:]
    data_list,    \* the cell texts after the placeholder expansion
    rows,         \* the batches of BATCH_SIZE cells
    data,         \* pd.DataFrame(rows, columns=columns)
    reg_season,   \* the rows before the first totals row
    missed,       \* missed_reg_seas_played
    played,       \* reg_seas_played
    curr_team,    \* the team whose one-hot column is dropped
    outcome,      \* "" while running, "returned", or the exception raised
    \* get_game_data
    game_pc,      \* the position reached in get_game_data
    game_args,    \* team, opp and url of the call
    site,         \* the tables of the box-score page the site serves
    fetches,      \* the calls of get_soup so far: the url and whether it answered
    soup,         \* the tables of the fetched page
    team_table,   \* soup.select(f'table[id="box-{team}-game-basic"]')
    opp_table,    \* soup.select(f'table[id="box-{opp}-game-basic"]')
    team_rows,    \* parse_box_table(team_table[0])
    opp_rows,     \* parse_box_table(opp_table[0])
    game_outcome, \* "" while running, "returned", or the exception raised
    \* the player readers of Scrape_Functions
    reader_pc,      \* the position reached in the reader
    reader_fn,      \* the reader called: player_season_data or player_avg_data
    document,       \* the tables of the player's page
    header_cols,    \* cols
    regular_frame,  \* the reader's reg_season
    post_frame,     \* post_season, playoff_season
    reader_data,    \* the frame the reader returns
    reader_outcome, \* "" while running, "returned", "returned None", or the exception
    \* SQLiteClient and the code that uses it
    db_pc,        \* where the using code stands: before the with block, in it,
                  \* in a transaction() block, raising out of one, after the with
    db_conn,      \* self._conn: "none" or "open"
    db_file,      \* the rows of the table players that are committed
    db_view,      \* the rows the connection sees, the uncommitted changes included
    db_exc,       \* the exception that is propagating, "" for none
    db_calls,     \* the calls of the client's methods so far
    last_call,    \* the last call of a method that runs a statement
    last_result,  \* "ok" or the exception it raised
    before_call,  \* the rows the connection saw before that call
    at_txn,       \* the committed rows when the transaction() block was entered
    txn_commits,  \* the commits since then
    txn_end,      \* how the transaction() block just ended: "commit", "rollback"
    at_exit,      \* the committed rows, the seen rows and the exception when
                  \* __exit__ was entered
    db_open,      \* the connections sqlite3.connect has opened and nobody closed
    last_conn,    \* the last step that used the connection: what it was, what
                  \* _conn was before it, and how many connections it opened
    \* the team, franchise and league readers of Scrape_Functions
    team_pc,      \* the position reached in the reader
    team_fn,      \* the reader called
    team_arg,     \* its argument team, "" for a reader without one
    team_site,    \* the tables of the page the site serves for the call
    team_fetched, \* the calls of get_soup so far: the team code in the url
    team_cols,    \* cols
    team_frame,   \* pd.DataFrame(rows, columns=cols)
    team_outcome  \* "" while running, "returned", "returned None", or the exception

\* the variables of get_player_data
log_vars == <<pc, page, table, data_list, rows, data, reg_season, missed, played,
              curr_team, outcome>>

\* the variables of get_game_data
game_vars == <<game_pc, game_args, site, fetches, soup, team_table, opp_table,
               team_rows, opp_rows, game_outcome>>

\* the variables of the player readers
reader_vars == <<reader_pc, reader_fn, document, header_cols, regular_frame,
                 post_frame, reader_data, reader_outcome>>

\* the variables of SQLiteClient and its use
db_vars == <<db_pc, db_conn, db_file, db_view, db_exc, db_calls, last_call,
             last_result, before_call, at_txn, txn_commits, txn_end, at_exit,
             db_open, last_conn>>

\* the variables of the team, franchise and league readers
club_vars == <<team_pc, team_fn, team_arg, team_site, team_fetched, team_cols,
               team_frame, team_outcome>>

vars == <<log_vars, game_vars, reader_vars, db_vars, club_vars>>

\* what a function of the module leaves alone: the variables of the others
outside_log == <<game_vars, reader_vars, db_vars, club_vars>>
outside_game == <<log_vars, reader_vars, db_vars, club_vars>>
outside_reader == <<log_vars, game_vars, db_vars, club_vars>>
outside_db == <<log_vars, game_vars, reader_vars, club_vars>>
outside_club == <<log_vars, game_vars, reader_vars, db_vars>>

-----------------------------------------------------------------------------
(* Bounds of the model. *)

\* the most game rows of a generated game log
MaxGames == 3

\* the most game rows of a log whose rows differ in one parsed cell
MaxParsedRows == 2

-----------------------------------------------------------------------------
(* Texts. *)

Digits == {"0", "1", "2", "3", "4", "5", "6", "7", "8", "9"}

DigitVal == ("0" :> 0) @@ ("1" :> 1) @@ ("2" :> 2) @@ ("3" :> 3) @@ ("4" :> 4)
            @@ ("5" :> 5) @@ ("6" :> 6) @@ ("7" :> 7) @@ ("8" :> 8) @@ ("9" :> 9)

\* the i-th character of s (1-based), "" beyond its end
Ch(s, i) == IF i >= 1 /\ i <= Len(s) THEN SubSeq(s, i, i) ELSE ""

\* s[i..] and s[..i]
From(s, i) == SubSeq(s, i, Len(s))
Upto(s, i) == SubSeq(s, 1, i)

AllDigits(s) == \A i \in 1..Len(s) : Ch(s, i) \in Digits

RECURSIVE DecVal(_)
\* the value of a run of decimal digits
DecVal(s) == IF Len(s) = 0 THEN 0
             ELSE 10 * DecVal(Upto(s, Len(s) - 1)) + DigitVal[Ch(s, Len(s))]

\* the first position at or after i where s holds c, Len(s)+1 when there is none
RECURSIVE Find(_, _, _)
Find(s, c, i) == IF i > Len(s) THEN Len(s) + 1
                 ELSE IF Ch(s, i) = c THEN i
                 ELSE Find(s, c, i + 1)

\* the end of the maximal run of characters of set cs starting at i (i-1 for none)
RECURSIVE RunEnd(_, _, _)
RunEnd(s, cs, i) == IF i <= Len(s) /\ Ch(s, i) \in cs THEN RunEnd(s, cs, i + 1)
                    ELSE i - 1

\* str.lower() on ASCII letters
LowerOf == ("A" :> "a") @@ ("B" :> "b") @@ ("C" :> "c") @@ ("D" :> "d") @@ ("E" :> "e") @@ ("F" :> "f")
           @@ ("G" :> "g") @@ ("H" :> "h") @@ ("I" :> "i") @@ ("J" :> "j") @@ ("K" :> "k") @@ ("L" :> "l")
           @@ ("M" :> "m") @@ ("N" :> "n") @@ ("O" :> "o") @@ ("P" :> "p") @@ ("Q" :> "q") @@ ("R" :> "r")
           @@ ("S" :> "s") @@ ("T" :> "t") @@ ("U" :> "u") @@ ("V" :> "v") @@ ("W" :> "w") @@ ("X" :> "x")
           @@ ("Y" :> "y") @@ ("Z" :> "z")

RECURSIVE Lower(_)
Lower(s) == IF Len(s) = 0 THEN ""
            ELSE (IF Head(s) \in DOMAIN LowerOf THEN LowerOf[Head(s)] ELSE Head(s))
                 \o Lower(Tail(s))

-----------------------------------------------------------------------------
(* Values of a frame cell. *)

Str(s) == [k |-> "str", s |-> s, n |-> 0]
Int_(n) == [k |-> "int", s |-> "", n |-> n]
Flt(n) == [k |-> "float", s |-> "", n |-> n]
None == [k |-> "none", s |-> "", n |-> 0]
NaN == [k |-> "nan", s |-> "", n |-> 0]
Inf == [k |-> "inf", s |-> "", n |-> 0]

\* thousandths in one unit of a Flt value
Milli == 10 * 100

IsStr(v, s) == v.k = "str" /\ v.s = s

-----------------------------------------------------------------------------
(* The game-log table. *)

BATCH_SIZE == 33

columns == <<"Gcar", "Gtm", "Date", "Team", "at", "Opp", "Result", "GS", "MP",
             "FG", "FGA", "FG%", "3P", "3PA", "3P%", "2P", "2PA", "2P%", "eFG%",
             "FT", "FTA", "FT%", "ORB", "DRB", "TRB", "AST", "STL", "BLK", "TOV",
             "PF", "PTS", "GmSc", "+/-">>

ColSet == {columns[i] : i \in 1..Len(columns)}

ColPos(c) == CHOOSE i \in 1..Len(columns) : columns[i] = c

\* the cells whose text stands for a game the player sat out
placeholders == {"inactive", "did not dress", "did not play"}

\* the empty cells appended after a placeholder cell
PLACEHOLDER_FILL == 25

\* the leading cells of the page that belong to no game row
SKIPPED_CELLS == 7

nba_teams == <<"ATL", "BOS", "BRK", "CHI", "CLE", "DAL", "DEN", "DET",
               "GSW", "HOU", "IND", "LAC", "LAL", "MEM", "MIA", "MIL",
               "MIN", "NOP", "NYK", "OKC", "ORL", "PHI", "PHO", "POR",
               "SAC", "SAS", "TOR", "UTA", "WAS", "CHO">>

TeamSet == {nba_teams[i] : i \in 1..Len(nba_teams)}

to_convert == {"FG", "FGA", "FG%", "3P", "3PA", "3P%", "2P", "2PA", "2P%", "eFG%",
               "FT", "FTA", "FT%", "ORB", "DRB", "TRB", "AST", "STL", "BLK", "TOV",
               "PF", "PTS", "GmSc", "+/-", "Team Score", "Opp Score"}

cats == {"PTS", "TRB", "AST", "STL", "BLK"}

\* '%' in c
HasPercent(c) == \E i \in 1..Len(c) : Ch(c, i) = "%"

-----------------------------------------------------------------------------
(* Data frames: the column labels and the rows, each with its index label. *)

Frame(cols, rs) == [cols |-> cols, rows |-> rs]

NRows(f) == Len(f.rows)

\* df[mask]: the rows of f that satisfy P, in order, index labels kept
Mask(f, P(_)) == Frame(f.cols, SelectSeq(f.rows, P))

\* df.drop(columns=cs), for labels that exist
DropCols(f, cs) ==
    Frame(f.cols \ cs,
          [i \in 1..NRows(f) |->
              [idx |-> f.rows[i].idx,
               v |-> [c \in f.cols \ cs |-> f.rows[i].v[c]]]])

\* df.drop(columns=cs) raises KeyError for a label that is no column
DropColsOk(f, cs) == cs \subseteq f.cols

\* df[c] = val(row) for every row: a new or replaced column
SetCol(f, c, val(_)) ==
    Frame(f.cols \cup {c},
          [i \in 1..NRows(f) |->
              [idx |-> f.rows[i].idx,
               v |-> [d \in f.cols \cup {c} |->
                         IF d = c THEN val(f.rows[i]) ELSE f.rows[i].v[d]]]])

\* df.at[label, c] = x; a label c that is no column yet is added, NaN elsewhere
SetAt(f, label, c, x) ==
    Frame(f.cols \cup {c},
          [i \in 1..NRows(f) |->
              [idx |-> f.rows[i].idx,
               v |-> [d \in f.cols \cup {c} |->
                         IF d = c /\ f.rows[i].idx = label THEN x
                         ELSE IF d \in f.cols THEN f.rows[i].v[d]
                         ELSE NaN]]])

\* df.reset_index(drop=True)
ResetIndex(f) ==
    Frame(f.cols, [i \in 1..NRows(f) |-> [idx |-> i - 1, v |-> f.rows[i].v]])

EmptyFrame == Frame({}, <<>>)

-----------------------------------------------------------------------------
(* Conversions of a cell text.  The texts of the model are made of ASCII   *)
(* letters, digits, space and the signs + - . : * ( ) so that \s is the    *)
(* space and \d an ASCII digit; no text spells an exponent, "inf" or "nan".*)

Spaces == {" "}

\* str.strip() of the spaces around s
RECURSIVE Strip(_)
Strip(s) == IF Len(s) > 0 /\ Head(s) \in Spaces THEN Strip(Tail(s))
            ELSE IF Len(s) > 0 /\ Ch(s, Len(s)) \in Spaces
                 THEN Strip(Upto(s, Len(s) - 1))
            ELSE s

Unsigned(s) == IF Len(s) > 0 /\ Head(s) \in {"+", "-"} THEN Tail(s) ELSE s
Sign(s) == IF Len(s) > 0 /\ Head(s) = "-" THEN -1 ELSE 1

\* int(s) is defined: optional spaces around an optional sign and one or more digits
IntOk(s) == LET u == Unsigned(Strip(s)) IN Len(u) > 0 /\ AllDigits(u)
IntVal(s) == Sign(Strip(s)) * DecVal(Unsigned(Strip(s)))

\* float(s) is defined: optional spaces around an optional sign, digits with at
\* most one point, and at least one digit
FloatOk(s) ==
    LET u == Unsigned(Strip(s))
        d == Find(u, ".", 1)
        whole == Upto(u, d - 1)
        frac == From(u, d + 1)
    IN  /\ AllDigits(whole) /\ AllDigits(frac)
        /\ Len(whole) + Len(frac) > 0

\* the first three fraction digits of f, as thousandths
Thousandths(f) == DecVal(Upto(f \o "000", 3))

\* float(s) in thousandths (texts of the model hold at most three fraction digits)
FloatVal(s) ==
    LET u == Unsigned(Strip(s))
        d == Find(u, ".", 1)
    IN  Sign(Strip(s)) * (DecVal(Upto(u, d - 1)) * Milli + Thousandths(From(u, d + 1)))

\* num / den rounded to the nearest integer, ties to the even one (den > 0)
RoundHalfEven(num, den) ==
    LET q == num \div den
        r == num % den
    IN  IF 2 * r < den THEN q
        ELSE IF 2 * r > den THEN q + 1
        ELSE IF q % 2 = 0 THEN q ELSE q + 1

\* r[0] == 'W' of line 221; r[0] fails on the empty text
OutcomeOk(r) == Len(r) > 0
OutcomeOf(r) == IF Ch(r, 1) = "W" THEN 1 ELSE 0

\* the places where (?<= )\d+(?=\s*-\s*) matches: a digit run that follows a
\* space and is followed by optional spaces and a hyphen
TeamScoreStarts(r) ==
    {p \in 2..Len(r) :
        /\ Ch(r, p - 1) = " "
        /\ Ch(r, p) \in Digits
        /\ Ch(r, RunEnd(r, Spaces, RunEnd(r, Digits, p) + 1) + 1) = "-"}

Least(S) == CHOOSE x \in S : \A y \in S : x <= y

\* re.findall(...)[0] of lines 223-225: fails when nothing matches
TeamScoreOk(r) == TeamScoreStarts(r) # {}
TeamScoreOf(r) ==
    LET p == Least(TeamScoreStarts(r)) IN SubSeq(r, p, RunEnd(r, Digits, p))

\* the places where (?<=-)\s*\d+ matches: optional spaces and a digit run right
\* after a hyphen
OppScoreStarts(r) ==
    {p \in 2..Len(r) :
        /\ Ch(r, p - 1) = "-"
        /\ Ch(r, RunEnd(r, Spaces, p) + 1) \in Digits}

\* re.findall(...)[0] of lines 228-230
OppScoreOk(r) == OppScoreStarts(r) # {}

\* lines 228-230 with the pattern of the team score: the run before the hyphen
OppScoreBeforeHyphen(r) == TeamScoreOf(r)

OppScoreOf(r) ==
    LET p == Least(OppScoreStarts(r))
    IN  SubSeq(r, p, RunEnd(r, Digits, RunEnd(r, Spaces, p) + 1))

\* time_str.split(":"): the pieces between the colons
RECURSIVE Split(_, _)
Split(s, c) ==
    LET d == Find(s, c, 1)
    IN  IF d > Len(s) THEN <<s>>
        ELSE <<Upto(s, d - 1)>> \o Split(From(s, d + 1), c)

\* minutes, seconds = map(int, time_str.split(":")) succeeds
TimeOk(t) ==
    LET parts == Split(t, ":")
    IN  Len(parts) = 2 /\ IntOk(parts[1]) /\ IntOk(parts[2])

time_to_secs(t) ==
    LET parts == Split(t, ":") IN IntVal(parts[1]) * 60 + IntVal(parts[2])

\* pd.to_datetime(text): the ISO forms YYYY-MM-DD and YYYYMMDD are read
DateOk(d) ==
    \/ Len(d) = 8 /\ AllDigits(d)
    \/ /\ Len(d) = 10 /\ Ch(d, 5) = "-" /\ Ch(d, 8) = "-"
       /\ AllDigits(SubSeq(d, 1, 4) \o SubSeq(d, 6, 7) \o SubSeq(d, 9, 10))

\* .dt.strftime('%Y%m%d')
DateOf(d) == IF Len(d) = 8 THEN d
             ELSE SubSeq(d, 1, 4) \o SubSeq(d, 6, 7) \o SubSeq(d, 9, 10)

-----------------------------------------------------------------------------
(* The pages served to get_player_data: the <td> cells of the game log, row *)
(* after row, behind the cells the code skips.                              *)

BaseCells ==
    [c \in ColSet |->
        CASE c = "Gcar" -> "1"       [] c = "Gtm" -> "1"
          [] c = "Date" -> "20250101" [] c = "Team" -> "LAL"
          [] c = "at" -> ""           [] c = "Opp" -> "BOS"
          [] c = "Result" -> "W 110-100"
          [] c = "GS" -> "*"          [] c = "MP" -> "30:00"
          [] c = "FG" -> "8"          [] c = "FGA" -> "16"
          [] c = "FG%" -> ".500"      [] c = "3P" -> "2"
          [] c = "3PA" -> "5"         [] c = "3P%" -> ""
          [] c = "2P" -> "6"          [] c = "2PA" -> "11"
          [] c = "2P%" -> ".545"      [] c = "eFG%" -> ".563"
          [] c = "FT" -> "2"          [] c = "FTA" -> "2"
          [] c = "FT%" -> "1.000"     [] c = "ORB" -> "1"
          [] c = "DRB" -> "4"         [] c = "TRB" -> "5"
          [] c = "AST" -> "5"         [] c = "STL" -> "2"
          [] c = "BLK" -> "1"         [] c = "TOV" -> "3"
          [] c = "PF" -> "2"          [] c = "PTS" -> "20"
          [] c = "GmSc" -> "15.5"     [] c = "+/-" -> "+7"]

\* the cells of one source row, in column order
Cells(f) == [i \in 1..Len(columns) |-> f[columns[i]]]

\* the base row with the cells of over replaced
With(over) == Cells(over @@ BaseCells)

BlankCells == [c \in ColSet |-> ""]

\* a game started and played
PlayedA == With(<<>>)

PlayedB == With(("Date" :> "20250105") @@ ("Opp" :> "DEN") @@ ("Gcar" :> "2")
                @@ ("Result" :> "L 100-120") @@ ("MP" :> "25:00")
                @@ ("PTS" :> "15") @@ ("TRB" :> "3") @@ ("AST" :> "2")
                @@ ("STL" :> "1") @@ ("BLK" :> "0") @@ ("TOV" :> "2")
                @@ ("3P" :> "0") @@ ("3P%" :> "0"))

\* a game played from the bench: no start mark
Bench == With(("Date" :> "2025-01-07") @@ ("Opp" :> "MIA") @@ ("GS" :> "")
              @@ ("at" :> "@"))

\* a game not played, all cells blank but the date and the teams
DidNotPlay == Cells(("Date" :> "20250103") @@ ("Team" :> "LAL")
                    @@ ("Opp" :> "GSW") @@ BlankCells)

\* a game sat out: the cells up to Result and one placeholder cell
InactiveRow == <<"", "4", "2025-01-09", "LAL", "@", "PHO", "L 90-99", "Inactive">>

\* the summary row after the games: blank in the six identifying columns
TotalsRow == With(("Gcar" :> "") @@ ("Gtm" :> "") @@ ("Date" :> "")
                  @@ ("Team" :> "") @@ ("at" :> "") @@ ("Opp" :> "")
                  @@ ("Result" :> "") @@ ("GS" :> "2") @@ ("MP" :> "55:00"))

\* a summary row that holds fewer cells than a game row
ShortTotalsRow == <<"", "", "", "", "", "", "", "2", "55:00">>

\* the cells before the first game row
Junk == [i \in 1..SKIPPED_CELLS |-> "x"]

RECURSIVE Flatten(_)
Flatten(ss) == IF ss = <<>> THEN <<>> ELSE Head(ss) \o Flatten(Tail(ss))

\* the logs of at most n rows drawn from V, each followed by a tail of Tails
Pages(V, Tails, n) ==
    {Junk \o Flatten(g) \o t : g \in UNION {[1..k -> V] : k \in 0..n}, t \in Tails}

GeneralRows == {PlayedA, PlayedB, Bench, DidNotPlay, InactiveRow}

GeneralPages == Pages(GeneralRows, {<<>>, TotalsRow, ShortTotalsRow}, MaxGames)

\* a played row of the site's own date form with the cells of over replaced
Game(over) == With(over @@ ("Date" :> "2024-10-22"))

TeamScores == {"0", "98", "124"}
OppScores == {"118", "130"}

\* the Result texts of the form <W|L> <a>-<b>
WellFormedResults ==
    {o \o " " \o a \o "-" \o b : o \in {"W", "L"}, a \in TeamScores, b \in OppScores}

\* no text, no scores, no W or L, no hyphenated pair, no space, spaced hyphen
OtherResults == {"", "W", "T 10-9", "W 110", "W124-118", "W 110 - 100"}

ResultRows == {Game("Result" :> r) : r \in WellFormedResults \cup OtherResults}

ResultPages == Pages(ResultRows, {TotalsRow}, MaxParsedRows)

ClockTexts == {"34:21", "0:00", "5:07"}

OtherClockTexts == {"", "34", "1:2:3", "-1:30", "+2:05", "a:10", "12:", ":30", "3 :04"}

ClockRows == {Game("MP" :> t) : t \in ClockTexts \cup OtherClockTexts}

ClockPages == Pages(ClockRows, {TotalsRow}, MaxParsedRows)

\* Team and Opp of a row: the roster teams LAL, BOS, DEN and NJN, which is none
Fixtures == {<<"LAL", "BOS">>, <<"LAL", "DEN">>, <<"BOS", "LAL">>, <<"BOS", "DEN">>,
             <<"LAL", "NJN">>, <<"NJN", "BOS">>}

TeamRows == {Game(("Team" :> x[1]) @@ ("Opp" :> x[2])) : x \in Fixtures}

TeamPages == Pages(TeamRows, {TotalsRow}, MaxGames)

\* TRB, AST, PTS, STL, BLK, TOV of a row
StatLines == {<<"10", "5", "20", "2", "1", "3">>, <<"5", "5", "20", "2", "1", "3">>,
              <<"10", "12", "30", "0", "0", "5">>, <<"9", "9", "9", "9", "9", "0">>,
              <<"10", "10", "10", "10", "10", "10">>, <<"3", "2", "15", "1", "0", "2">>,
              <<"10.5", "4", "11", "0", "2", "1">>, <<"", "5", "20", "2", "1", "3">>,
              <<"7", "5", "abc", "2", "1", "3">>}

StatRows == {Game(("TRB" :> x[1]) @@ ("AST" :> x[2]) @@ ("PTS" :> x[3])
                  @@ ("STL" :> x[4]) @@ ("BLK" :> x[5]) @@ ("TOV" :> x[6]))
             : x \in StatLines}

StatPages == Pages(StatRows, {TotalsRow}, MaxParsedRows)

\* the columns with '%' in their name
PercentCols == {c \in ColSet : HasPercent(c)}

\* a percentage cell: not reported, zero, not zero
PercentCells == {"", ".000", ".456"}

\* one game row for every assignment of the three cells to the five columns
PercentRows == {Game(f) : f \in [PercentCols -> PercentCells]}

PercentPages == Pages(PercentRows, {TotalsRow}, 1)

\* logs whose summary row is followed by more cells: the rows of a second
\* table of the page, with or without a summary row of their own
AfterTotals == {<<>>, PlayedB, TotalsRow, PlayedB \o TotalsRow, Bench \o PlayedB}

SplitPages ==
    {Junk \o g \o TotalsRow \o t :
        g \in {PlayedA, Bench \o PlayedA, PlayedA \o DidNotPlay}, t \in AfterTotals}

\* a game sat out in a row that holds one cell less before the placeholder
DidNotDressRow == <<"5", "2025-01-11", "LAL", "@", "PHO", "L 90-99", "Did Not Dress">>

\* a game sat out in a row that holds the start cell before the placeholder
DidNotPlayRow ==
    <<"", "6", "2025-01-13", "LAL", "", "DEN", "W 101-99", "", "Did Not Play">>

\* logs with a placeholder row of either kind among the game rows
PlaceholderPages ==
    {Junk \o g \o TotalsRow :
        g \in {DidNotDressRow \o PlayedA, PlayedA \o DidNotPlayRow \o PlayedB,
               InactiveRow \o DidNotDressRow \o PlayedA, DidNotPlayRow}}

AllPages == GeneralPages \cup ResultPages \cup ClockPages \cup TeamPages \cup StatPages
            \cup PercentPages \cup SplitPages \cup PlaceholderPages

-----------------------------------------------------------------------------
(* The variables of a function that is not called. *)

LogIdle ==
    /\ pc = "idle"
    /\ page = <<>>
    /\ table = <<>>
    /\ data_list = <<>>
    /\ rows = <<>>
    /\ data = EmptyFrame
    /\ reg_season = EmptyFrame
    /\ missed = EmptyFrame
    /\ played = EmptyFrame
    /\ curr_team = ""
    /\ outcome = ""

NoArgs == [team |-> "", opp |-> "", url |-> ""]

GameIdle ==
    /\ game_pc = "idle"
    /\ game_args = NoArgs
    /\ site = <<>>
    /\ fetches = <<>>
    /\ soup = <<>>
    /\ team_table = <<>>
    /\ opp_table = <<>>
    /\ team_rows = <<>>
    /\ opp_rows = <<>>
    /\ game_outcome = ""

\* a frame of the readers: the column labels in order, which may repeat, and
\* the rows, each the values under the labels
Sheet(cols, rs) == [cols |-> cols, rows |-> rs]

NoSheet == Sheet(<<>>, <<>>)

ReaderIdle ==
    /\ reader_pc = "idle"
    /\ reader_fn = ""
    /\ document = <<>>
    /\ header_cols = <<>>
    /\ regular_frame = NoSheet
    /\ post_frame = NoSheet
    /\ reader_data = NoSheet
    /\ reader_outcome = ""

NoCall == [op |-> "", rows |-> <<>>]

NoStep == [op |-> "", before |-> "none", opened |-> 0]

\* a client that is constructed and not used: __init__ leaves _conn None
DbIdle ==
    /\ db_pc = "idle"
    /\ db_conn = "none"
    /\ db_file = {}
    /\ db_view = {}
    /\ db_exc = ""
    /\ db_calls = 0
    /\ last_call = NoCall
    /\ last_result = ""
    /\ before_call = {}
    /\ at_txn = {}
    /\ txn_commits = 0
    /\ txn_end = ""
    /\ at_exit = [file |-> {}, view |-> {}, exc |-> ""]
    /\ db_open = 0
    /\ last_conn = NoStep

\* no team, franchise or league reader is called
TeamIdle ==
    /\ team_pc = "idle"
    /\ team_fn = ""
    /\ team_arg = ""
    /\ team_site = <<>>
    /\ team_fetched = <<>>
    /\ team_cols = <<>>
    /\ team_frame = NoSheet
    /\ team_outcome = ""

-----------------------------------------------------------------------------
(* get_player_data, step by step. *)

Init ==
    /\ GameIdle
    /\ ReaderIdle
    /\ DbIdle
    /\ TeamIdle
    /\ pc = "fetch"
    /\ page \in AllPages
    /\ table = <<>>
    /\ data_list = <<>>
    /\ rows = <<>>
    /\ data = EmptyFrame
    /\ reg_season = EmptyFrame
    /\ missed = EmptyFrame
    /\ played = EmptyFrame
    /\ curr_team = ""
    /\ outcome = ""

\* soup = get_soup(url); table = soup.find_all('td', ...)[7:].  get_soup catches
\* a URLError and then reads html, which is unbound: the call raises.
Fetch ==
    /\ pc = "fetch"
    /\ \E fetched \in BOOLEAN :
          IF fetched
          THEN /\ table' = SubSeq(page, SKIPPED_CELLS + 1, Len(page))
               /\ pc' = "expand"
               /\ outcome' = outcome
          ELSE /\ table' = table
               /\ pc' = "done"
               /\ outcome' = "UnboundLocalError"
    /\ UNCHANGED outside_log
    /\ UNCHANGED <<page, data_list, rows, data, reg_season, missed, played, curr_team>>

\* lines 166-171: what one cell appends to data_list
ExpandedCell(c) ==
    IF Lower(c) \in placeholders
    THEN <<c>> \o [i \in 1..PLACEHOLDER_FILL |-> ""]
    ELSE <<c>>

\* the loop of lines 161-171 over the cells (the list is halved to keep the
\* evaluation shallow; the cells are appended in order either way)
RECURSIVE Expanded(_)
Expanded(cells) ==
    IF cells = <<>> THEN <<>>
    ELSE IF Len(cells) = 1 THEN ExpandedCell(cells[1])
    ELSE Expanded(SubSeq(cells, 1, Len(cells) \div 2))
         \o Expanded(SubSeq(cells, Len(cells) \div 2 + 1, Len(cells)))

Expand ==
    /\ pc = "expand"
    /\ data_list' = Expanded(table)
    /\ pc' = "batch"
    /\ UNCHANGED outside_log
    /\ UNCHANGED <<page, table, rows, data, reg_season, missed, played, curr_team,
                   outcome>>

Min(a, b) == IF a < b THEN a ELSE b

\* data_list[i: i+BATCH_SIZE] for i in range(0, len(data_list), BATCH_SIZE)
Batches(cells) ==
    [b \in 1..((Len(cells) + BATCH_SIZE - 1) \div BATCH_SIZE) |->
        SubSeq(cells, (b - 1) * BATCH_SIZE + 1, Min(b * BATCH_SIZE, Len(cells)))]

Batch ==
    /\ pc = "batch"
    /\ rows' = Batches(data_list)
    /\ pc' = "frame"
    /\ UNCHANGED outside_log
    /\ UNCHANGED <<page, table, data_list, data, reg_season, missed, played,
                   curr_team, outcome>>

\* the width pandas finds in a list of lists: its longest row
Width(rs) == IF rs = <<>> THEN 0
             ELSE LET n == {Len(rs[i]) : i \in 1..Len(rs)}
                  IN  CHOOSE w \in n : \A x \in n : x <= w

\* pd.DataFrame(rows, columns=columns): rows shorter than the longest are filled
\* with None; a longest row of another width than the labels is refused
DataFrameOk(rs) == rs = <<>> \/ Width(rs) = Len(columns)

DataFrame(rs) ==
    Frame(ColSet,
          [i \in 1..Len(rs) |->
              [idx |-> i - 1,
               v |-> [c \in ColSet |->
                         IF ColPos(c) <= Len(rs[i]) THEN Str(rs[i][ColPos(c)])
                         ELSE None]]])

MakeFrame ==
    /\ pc = "frame"
    /\ IF DataFrameOk(rows)
       THEN data' = DataFrame(rows) /\ pc' = "split" /\ outcome' = outcome
       ELSE data' = data /\ pc' = "done" /\ outcome' = "ValueError"
    /\ UNCHANGED outside_log
    /\ UNCHANGED <<page, table, data_list, rows, reg_season, missed, played,
                   curr_team>>

\* the six identifying columns of lines 193-198
identity_cols == {"Gcar", "Gtm", "Date", "Team", "at", "Opp"}

\* the mask of lines 192-199: every identifying cell equals ''
IsTotals(r) == \A c \in identity_cols : IsStr(r.v[c], "")

\* totals.index[0] fails when no row is a totals row
SplitOk(f) == \E i \in 1..NRows(f) : IsTotals(f.rows[i])

\* data.iloc[:totals.index[-1]]: the rows before the last totals row
BeforeLastTotals(f) ==
    LET t == Mask(f, IsTotals)
    IN  Frame(f.cols, SubSeq(f.rows, 1, t.rows[NRows(t)].idx))

\* data.iloc[:totals.index[0]]
BeforeTotals(f) ==
    LET first == Mask(f, IsTotals).rows[1].idx
    IN  Frame(f.cols, SubSeq(f.rows, 1, first))

SplitTotals ==
    /\ pc = "split"
    /\ IF SplitOk(data)
       THEN reg_season' = BeforeTotals(data) /\ pc' = "partition" /\ outcome' = outcome
       ELSE reg_season' = reg_season /\ pc' = "done" /\ outcome' = "IndexError"
    /\ UNCHANGED outside_log
    /\ UNCHANGED <<page, table, data_list, rows, data, missed, played, curr_team>>

\* reg_season['GS'] == '*'
Started(r) == IsStr(r.v["GS"], "*")
NotStarted(r) == ~Started(r)

\* line 203
MissedOf(f) == Mask(f, NotStarted)

\* line 205 without its mask: every per-game row counts as played
PlayedOfUnmasked(f) == f

\* line 205
PlayedOf(f) == Mask(f, Started)

Partition ==
    /\ pc = "partition"
    /\ missed' = MissedOf(reg_season)
    /\ played' = PlayedOf(reg_season)
    /\ pc' = "fill"
    /\ UNCHANGED outside_log
    /\ UNCHANGED <<page, table, data_list, rows, data, reg_season, curr_team, outcome>>

\* lines 212-215 looking at the column 3P% alone, as lines 209-210 do
FillCellThreePoint(c, v) == IF c = "3P%" /\ IsStr(v, "") THEN Int_(0) ELSE v

\* lines 212-215 with an else branch that blanks the cell: '' becomes 0 and
\* anything else becomes ''
FillCellBlanking(c, v) ==
    IF HasPercent(c) THEN (IF IsStr(v, "") THEN Int_(0) ELSE Str("")) ELSE v

\* lines 212-215: an empty cell of a column with '%' in its name becomes 0
FillCell(c, v) == IF HasPercent(c) /\ IsStr(v, "") THEN Int_(0) ELSE v

FillPercents(f) ==
    Frame(f.cols,
          [i \in 1..NRows(f) |->
              [idx |-> f.rows[i].idx,
               v |-> [c \in f.cols |-> FillCell(c, f.rows[i].v[c])]]])

\* lines 212-217
FillPercent ==
    /\ pc = "fill"
    /\ played' = DropCols(FillPercents(played), {"at", "GS"})
    /\ pc' = "date"
    /\ UNCHANGED outside_log
    /\ UNCHANGED <<page, table, data_list, rows, data, reg_season, missed, curr_team,
                   outcome>>

\* every row of f has a text in column c that satisfies Ok
AllOk(f, c, Ok(_)) ==
    \A i \in 1..NRows(f) : f.rows[i].v[c].k = "str" /\ Ok(f.rows[i].v[c].s)

\* pd.to_datetime reads '' as NaT, which strftime turns into NaN
DateTextOk(d) == d = "" \/ DateOk(d)
DateCell(r) == IF r.v["Date"].s = "" THEN NaN ELSE Str(DateOf(r.v["Date"].s))

\* line 219
ConvertDate ==
    /\ pc = "date"
    /\ IF AllOk(played, "Date", DateTextOk)
       THEN played' = SetCol(played, "Date", DateCell) /\ pc' = "result"
            /\ outcome' = outcome
       ELSE played' = played /\ pc' = "done" /\ outcome' = "ValueError"
    /\ UNCHANGED outside_log
    /\ UNCHANGED <<page, table, data_list, rows, data, reg_season, missed, curr_team>>

\* lines 221-231 succeed on the Result text r
ResultOk(r) == OutcomeOk(r) /\ TeamScoreOk(r) /\ OppScoreOk(r)

ResultCell(r) == Int_(OutcomeOf(r.v["Result"].s))
TeamScoreCell(r) == Str(TeamScoreOf(r.v["Result"].s))
OppScoreCell(r) == Str(OppScoreOf(r.v["Result"].s))

\* lines 233-235; the scores are read before Result is replaced
SplitResult(f) ==
    SetCol(SetCol(SetCol(f, "Team Score", TeamScoreCell), "Opp Score", OppScoreCell),
           "Result", ResultCell)

\* lines 221-235
ParseResult ==
    /\ pc = "result"
    /\ IF AllOk(played, "Result", ResultOk)
       THEN played' = SplitResult(played) /\ pc' = "mp" /\ outcome' = outcome
       ELSE played' = played /\ pc' = "done" /\ outcome' = "IndexError"
    /\ UNCHANGED outside_log
    /\ UNCHANGED <<page, table, data_list, rows, data, reg_season, missed, curr_team>>

SecondsCell(r) == Int_(time_to_secs(r.v["MP"].s))

\* lines 238-244
ConvertMP ==
    /\ pc = "mp"
    /\ IF AllOk(played, "MP", TimeOk)
       THEN played' = SetCol(played, "MP", SecondsCell) /\ pc' = "share"
            /\ outcome' = outcome
       ELSE played' = played /\ pc' = "done" /\ outcome' = "ValueError"
    /\ UNCHANGED outside_log
    /\ UNCHANGED <<page, table, data_list, rows, data, reg_season, missed, curr_team>>

\* round(pts / ts, 2) of two integers, as pandas divides: x/0 is inf, 0/0 is NaN
\* (ts is a digit run, never negative; the sign of an infinity is not kept)
Share(pts, ts) ==
    IF ts = 0 THEN (IF pts = 0 THEN NaN ELSE Inf)
    ELSE Flt(10 * RoundHalfEven(100 * pts, ts))

PercentScoreCell(r) == Share(IntVal(r.v["PTS"].s), IntVal(r.v["Team Score"].s))

\* lines 247-250
PercentScore ==
    /\ pc = "share"
    /\ IF AllOk(played, "PTS", IntOk) /\ AllOk(played, "Team Score", IntOk)
       THEN played' = SetCol(played, "Percent Score", PercentScoreCell)
            /\ pc' = "cast" /\ outcome' = outcome
       ELSE played' = played /\ pc' = "done" /\ outcome' = "ValueError"
    /\ UNCHANGED outside_log
    /\ UNCHANGED <<page, table, data_list, rows, data, reg_season, missed, curr_team>>

\* float(v) of a cell: a text is parsed, an integer widened
CastOk(v) == \/ v.k = "str" /\ FloatOk(v.s)
             \/ v.k \in {"int", "float", "nan", "inf"}
Cast(v) == IF v.k = "str" THEN Flt(FloatVal(v.s))
           ELSE IF v.k = "int" THEN Flt(v.n * Milli)
           ELSE v

\* reg_seas_played[to_convert].astype(float)
CastAll(f) ==
    Frame(f.cols,
          [i \in 1..NRows(f) |->
              [idx |-> f.rows[i].idx,
               v |-> [c \in f.cols |->
                         IF c \in to_convert THEN Cast(f.rows[i].v[c])
                         ELSE f.rows[i].v[c]]]])

\* lines 253-258 with a cast that leaves what it cannot convert as it is
CastFloatIgnoring ==
    /\ pc = "cast"
    /\ IF \A i \in 1..NRows(played) : \A c \in to_convert : CastOk(played.rows[i].v[c])
       THEN played' = CastAll(played)
       ELSE played' = played
    /\ pc' = "url"
    /\ outcome' = outcome
    /\ UNCHANGED outside_log
    /\ UNCHANGED <<page, table, data_list, rows, data, reg_season, missed, curr_team>>

\* lines 253-258
CastFloat ==
    /\ pc = "cast"
    /\ IF \A i \in 1..NRows(played) : \A c \in to_convert : CastOk(played.rows[i].v[c])
       THEN played' = CastAll(played) /\ pc' = "url" /\ outcome' = outcome
       ELSE played' = played /\ pc' = "done" /\ outcome' = "ValueError"
    /\ UNCHANGED outside_log
    /\ UNCHANGED <<page, table, data_list, rows, data, reg_season, missed, curr_team>>

\* the text an f-string gives for a cell
Shown(v) == IF v.k = "str" THEN v.s ELSE "nan"

\* line 265
UrlCell(r) ==
    Str("https://www.basketball-reference.com/boxscores/" \o Shown(r.v["Date"])
        \o "0" \o Shown(r.v["Team"]) \o ".html")

\* the span[itemprop="name"] texts of the page; names[3] is the player
names == <<"Basketball Reference", "Players", "J", "LeBron James">>

NameCell(r) == Str(names[4])

\* lines 260-279
AddUrls ==
    /\ pc = "url"
    /\ played' = SetCol(SetCol(played, "URL", UrlCell), "Player_NAME", NameCell)
    /\ pc' = "onehot"
    /\ UNCHANGED outside_log
    /\ UNCHANGED <<page, table, data_list, rows, data, reg_season, missed, curr_team,
                   outcome>>

\* lines 316-317: a zero column for every team of nba_teams
AddTeams(f) ==
    Frame(f.cols \cup TeamSet,
          [i \in 1..NRows(f) |->
              [idx |-> f.rows[i].idx,
               v |-> [d \in f.cols \cup TeamSet |->
                         IF d \in TeamSet THEN Int_(0) ELSE f.rows[i].v[d]]]])

\* line 319: reg_seas_played['Team'].iloc[0]
OwnTeam(f) == Shown(f.rows[1].v["Team"])

\* lines 322-325: row after row from position i, the column named by the row's
\* Opp cell is set to 1
RECURSIVE MarkOpponents(_, _)
MarkOpponents(f, i) ==
    IF i > NRows(f) THEN f
    ELSE MarkOpponents(SetAt(f, f.rows[i].idx, Shown(f.rows[i].v["Opp"]), Int_(1)),
                       i + 1)

\* lines 316-333
OneHot ==
    /\ pc = "onehot"
    /\ IF NRows(played) = 0
       THEN played' = AddTeams(played) /\ curr_team' = curr_team
            /\ pc' = "done" /\ outcome' = "IndexError"
       ELSE IF OwnTeam(played) \notin AddTeams(played).cols
       THEN played' = AddTeams(played) /\ curr_team' = OwnTeam(played)
            /\ pc' = "done" /\ outcome' = "KeyError"
       ELSE /\ curr_team' = OwnTeam(played)
            /\ played' = ResetIndex(DropCols(
                             MarkOpponents(DropCols(AddTeams(played),
                                                    {OwnTeam(played)}), 1),
                             {"Gtm", "Gcar"}))
            /\ pc' = "fantasy" /\ outcome' = outcome
    /\ UNCHANGED outside_log
    /\ UNCHANGED <<page, table, data_list, rows, data, reg_season, missed>>

\* line 345 with > in place of >=: a value of exactly 10 does not count
CountsAbove(r) == Cardinality({c \in cats : r.v[c].k = "inf"
                                            \/ (r.v[c].k = "float" /\ r.v[c].n > 10 * Milli)})

\* line 345: the categories of the row that reach 10
Counts(r) == Cardinality({c \in cats : r.v[c].k = "inf"
                                       \/ (r.v[c].k = "float" /\ r.v[c].n >= 10 * Milli)})

\* line 347 with == in place of >=: a row counts as a double double only
\* when exactly two categories reach 10
DoubleDoubleExactlyTwo(r) == IF Counts(r) = 2 THEN 1 ELSE 0

\* lines 347-348
DoubleDouble(r) == IF Counts(r) >= 2 THEN 1 ELSE 0
TripleDouble(r) == (IF Counts(r) >= 3 THEN 1 ELSE 0) * 2

scored == {"TRB", "AST", "PTS", "STL", "BLK", "TOV"}

\* lines 336-360 with line 338 losing its weight: PTS counts in full
FantasyTotalFullPoints(r) ==
    10 * (r.v["TRB"].n + r.v["AST"].n + r.v["STL"].n + r.v["BLK"].n
          - r.v["TOV"].n + (DoubleDouble(r) + TripleDouble(r)) * Milli)
    + 10 * r.v["PTS"].n

\* lines 336-360, in ten-thousandths: PTS counts half, TOV is subtracted
FantasyTotal(r) ==
    10 * (r.v["TRB"].n + r.v["AST"].n + r.v["STL"].n + r.v["BLK"].n
          - r.v["TOV"].n + (DoubleDouble(r) + TripleDouble(r)) * Milli)
    + 5 * r.v["PTS"].n

\* line 363: .round(2); a sum over a cell that is no finite number is NaN
FantasyCell(r) ==
    IF \A c \in scored : r.v[c].k = "float"
    THEN Flt(10 * RoundHalfEven(FantasyTotal(r), 100))
    ELSE NaN

DoubleCell(r) == Int_(DoubleDouble(r))
TripleCell(r) == Int_(TripleDouble(r))

\* lines 335-363
Fantasy ==
    /\ pc = "fantasy"
    /\ played' = SetCol(SetCol(SetCol(played, "double_double", DoubleCell),
                               "triple_double", TripleCell),
                        "fantasy_score", FantasyCell)
    /\ pc' = "return"
    /\ UNCHANGED outside_log
    /\ UNCHANGED <<page, table, data_list, rows, data, reg_season, missed, curr_team,
                   outcome>>

\* line 365
Return ==
    /\ pc = "return"
    /\ pc' = "done"
    /\ outcome' = "returned"
    /\ UNCHANGED outside_log
    /\ UNCHANGED <<page, table, data_list, rows, data, reg_season, missed, played,
                   curr_team>>

Next ==
    \/ Fetch
    \/ Expand
    \/ Batch
    \/ MakeFrame
    \/ SplitTotals
    \/ Partition
    \/ FillPercent
    \/ ConvertDate
    \/ ParseResult
    \/ ConvertMP
    \/ PercentScore
    \/ CastFloat
    \/ AddUrls
    \/ OneHot
    \/ Fantasy
    \/ Return

Spec == Init /\ [][Next]_vars

-----------------------------------------------------------------------------
(* get_game_data of src/functions.py.  The page is the sequence of its      *)
(* tables, each with its id and its body rows; a body row is the sequence   *)
(* of its cells that carry data-stat, each a pair of the key and the text.  *)

\* the most body rows of a box-score table
MaxBoxRows == 2

\* str.replace(old, new) for a non-empty old: every occurrence, left to right
RECURSIVE Replace(_, _, _)
Replace(s, old, new) ==
    IF Len(s) < Len(old) THEN s
    ELSE IF Upto(s, Len(old)) = old
         THEN new \o Replace(From(s, Len(old) + 1), old, new)
    ELSE Ch(s, 1) \o Replace(Tail(s), old, new)

\* lines 94-95
other_url(args) == Replace(args.url, args.team, args.opp)

\* f'table[id="box-{t}-game-basic"]'
BoxId(t) == "box-" \o t \o "-game-basic"

\* a player's line, the separator above the bench, a line with no player cell
BoxLines == {<<<<"player", "LeBron James">>, <<"pts", "30">>>>,
             <<<<"player", "Reserves">>, <<"pts", "PTS">>>>,
             <<<<"pts", "12">>>>}

BoxBodies == UNION {[1..k -> BoxLines] : k \in 0..MaxBoxRows}

\* the pages: the home and the away table of the game LAL-BOS, each there or not
BoxSites ==
    {t \o o : t \in {<<>>} \cup {<<[id |-> BoxId("LAL"), body |-> b]>> : b \in BoxBodies},
              o \in {<<>>} \cup {<<[id |-> BoxId("BOS"), body |-> b]>> :
                                      b \in {<<>>} \cup {<<l>> : l \in BoxLines}}}

\* the calls: the page asked under the team's code, under the opponent's code,
\* with the code twice in the url, and for a team that did not play
GameCalls ==
    {[team |-> "LAL", opp |-> "BOS", url |-> "/boxscores/202410220LAL.html"],
     [team |-> "BOS", opp |-> "LAL", url |-> "/boxscores/202410220LAL.html"],
     [team |-> "LAL", opp |-> "BOS", url |-> "/boxscores/LAL/202410220LAL.html"],
     [team |-> "DEN", opp |-> "BOS", url |-> "/boxscores/202410220DEN.html"]}

GameInit ==
    /\ LogIdle
    /\ ReaderIdle
    /\ DbIdle
    /\ TeamIdle
    /\ game_pc = "try"
    /\ game_args \in GameCalls
    /\ site \in BoxSites
    /\ fetches = <<>>
    /\ soup = <<>>
    /\ team_table = <<>>
    /\ opp_table = <<>>
    /\ team_rows = <<>>
    /\ opp_rows = <<>>
    /\ game_outcome = ""

\* lines 98-105: the first pass of the loop calls get_soup(url); get_soup
\* raises when the url does not answer (line 35 reads html, which is unbound),
\* and the loop is left by break when it answers
TryUrl ==
    /\ game_pc = "try"
    /\ \E answered \in BOOLEAN :
          /\ fetches' = Append(fetches, [url |-> game_args.url, ok |-> answered])
          /\ IF answered
             THEN soup' = site /\ game_pc' = "select"
             ELSE soup' = soup /\ game_pc' = "except"
    /\ UNCHANGED <<game_args, site, team_table, opp_table, team_rows, opp_rows,
                   game_outcome>>
    /\ UNCHANGED outside_game

\* lines 107-114 with continue in place of the break of line 114 and the
\* failure swallowed: the loop asks for the url again
TryOtherUrlLooping ==
    /\ game_pc = "except"
    /\ \E answered \in BOOLEAN :
          /\ fetches' = Append(fetches, [url |-> other_url(game_args), ok |-> answered])
          /\ IF answered
             THEN soup' = site /\ game_pc' = "select"
             ELSE soup' = soup /\ game_pc' = "try"
    /\ UNCHANGED <<game_args, site, team_table, opp_table, team_rows, opp_rows,
                   game_outcome>>
    /\ UNCHANGED outside_game

\* lines 107-114: the handler calls get_soup(other_url) and leaves the loop by
\* break; an exception raised in the handler leaves get_game_data
TryOtherUrl ==
    /\ game_pc = "except"
    /\ \E answered \in BOOLEAN :
          /\ fetches' = Append(fetches, [url |-> other_url(game_args), ok |-> answered])
          /\ IF answered
             THEN soup' = site /\ game_pc' = "select" /\ game_outcome' = game_outcome
             ELSE soup' = soup /\ game_pc' = "done"
                  /\ game_outcome' = "UnboundLocalError"
    /\ UNCHANGED <<game_args, site, team_table, opp_table, team_rows, opp_rows>>
    /\ UNCHANGED outside_game

\* soup.select('table[id="..."]'): the bodies of the tables of that id, in
\* document order
Select(doc, id) ==
    LET HasId(t) == t.id = id
        found == SelectSeq(doc, HasId)
    IN  [i \in 1..Len(found) |-> found[i].body]

\* lines 117-118
SelectTables ==
    /\ game_pc = "select"
    /\ team_table' = Select(soup, BoxId(game_args.team))
    /\ opp_table' = Select(soup, BoxId(game_args.opp))
    /\ game_pc' = "team"
    /\ UNCHANGED <<game_args, site, fetches, soup, team_rows, opp_rows, game_outcome>>
    /\ UNCHANGED outside_game

\* the keys of the cells of a body row
Keys(tr) == {tr[i][1] : i \in 1..Len(tr)}

\* lines 124-128: row_data[key] = val cell after cell, a later cell of the same
\* key replacing an earlier one
RowData(tr) ==
    [k \in Keys(tr) |->
        LET at == {i \in 1..Len(tr) : tr[i][1] = k}
        IN  tr[CHOOSE i \in at : \A j \in at : j <= i][2]]

\* line 129 reads row_data['player']: a row with no such cell raises KeyError
HasPlayer(tr) == "player" \in Keys(tr)

\* lines 129-130
IsReserves(tr) == RowData(tr)["player"] = "Reserves"
NotReserves(tr) == ~IsReserves(tr)

\* lines 121-132 on a body whose rows all hold a player cell
parse_box_table(body) ==
    LET kept == SelectSeq(body, NotReserves)
    IN  [i \in 1..Len(kept) |-> RowData(kept[i])]

\* line 135: team_table[0] fails on an empty selection
ParseTeam ==
    /\ game_pc = "team"
    /\ IF team_table = <<>>
       THEN team_rows' = team_rows /\ game_pc' = "done" /\ game_outcome' = "IndexError"
       ELSE IF \E i \in 1..Len(team_table[1]) : ~HasPlayer(team_table[1][i])
       THEN team_rows' = team_rows /\ game_pc' = "done" /\ game_outcome' = "KeyError"
       ELSE team_rows' = parse_box_table(team_table[1]) /\ game_pc' = "opp"
            /\ game_outcome' = game_outcome
    /\ UNCHANGED <<game_args, site, fetches, soup, team_table, opp_table, opp_rows>>
    /\ UNCHANGED outside_game

\* line 136
ParseOpp ==
    /\ game_pc = "opp"
    /\ IF opp_table = <<>>
       THEN opp_rows' = opp_rows /\ game_pc' = "done" /\ game_outcome' = "IndexError"
       ELSE IF \E i \in 1..Len(opp_table[1]) : ~HasPlayer(opp_table[1][i])
       THEN opp_rows' = opp_rows /\ game_pc' = "done" /\ game_outcome' = "KeyError"
       ELSE opp_rows' = parse_box_table(opp_table[1]) /\ game_pc' = "frames"
            /\ game_outcome' = game_outcome
    /\ UNCHANGED <<game_args, site, fetches, soup, team_table, opp_table, team_rows>>
    /\ UNCHANGED outside_game

\* lines 138-142
ReturnFrames ==
    /\ game_pc = "frames"
    /\ game_pc' = "done"
    /\ game_outcome' = "returned"
    /\ UNCHANGED <<game_args, site, fetches, soup, team_table, opp_table, team_rows,
                   opp_rows>>
    /\ UNCHANGED outside_game

GameNext ==
    \/ TryUrl
    \/ TryOtherUrl
    \/ SelectTables
    \/ ParseTeam
    \/ ParseOpp
    \/ ReturnFrames

GameSpec == GameInit /\ [][GameNext]_vars

-----------------------------------------------------------------------------
(* The player readers of src/scrape_functions.py: player_season_data and    *)
(* player_avg_data.  A table of the page is its id, the rows of its header  *)
(* section (each the texts of its th cells) and its body rows; a body row   *)
(* tells whether it carries the class thead, how many of its leading cells  *)
(* are th, and the texts of its cells.                                      *)

\* the most body rows of a regular-season table
MaxBodyRows == 2

\* the positions of the columns labelled c
Labelled(f, c) == {j \in 1..Len(f.cols) : f.cols[j] = c}

\* pd.DataFrame(rows, columns=cols), every row as wide as cols
SheetOf(cols, rs) ==
    Sheet(cols, [i \in 1..Len(rs) |-> [j \in 1..Len(cols) |-> Str(rs[i][j])]])

\* df[c] = x for a scalar x: the columns labelled c are overwritten, a label
\* that is new is appended
SetLabel(f, c, x) ==
    IF Labelled(f, c) # {}
    THEN Sheet(f.cols, [i \in 1..Len(f.rows) |->
                          [j \in 1..Len(f.cols) |->
                              IF f.cols[j] = c THEN x ELSE f.rows[i][j]]])
    ELSE Sheet(Append(f.cols, c), [i \in 1..Len(f.rows) |-> Append(f.rows[i], x)])

\* df[c] = xs for a series xs of one value a row
SetSeries(f, c, xs) ==
    IF Labelled(f, c) # {}
    THEN Sheet(f.cols, [i \in 1..Len(f.rows) |->
                          [j \in 1..Len(f.cols) |->
                              IF f.cols[j] = c THEN xs[i] ELSE f.rows[i][j]]])
    ELSE Sheet(Append(f.cols, c), [i \in 1..Len(f.rows) |-> Append(f.rows[i], xs[i])])

\* the positions from j on whose label is not c, in order
RECURSIVE KeptPositions(_, _, _)
KeptPositions(cols, c, j) ==
    IF j > Len(cols) THEN <<>>
    ELSE (IF cols[j] = c THEN <<>> ELSE <<j>>) \o KeptPositions(cols, c, j + 1)

\* df.drop(columns=c) raises KeyError when no column is labelled c
DropLabelOk(f, c) == Labelled(f, c) # {}

\* df.drop(columns=c): every column labelled c goes
DropLabel(f, c) ==
    LET keep == KeptPositions(f.cols, c, 1)
    IN  Sheet([k \in 1..Len(keep) |-> f.cols[keep[k]]],
              [i \in 1..Len(f.rows) |-> [k \in 1..Len(keep) |-> f.rows[i][keep[k]]]])

Repeats(cols) == \E i, j \in 1..Len(cols) : i # j /\ cols[i] = cols[j]

\* pd.concat([a, b], axis=0) reindexes frames whose labels differ, which a
\* frame with a repeated label refuses (InvalidIndexError)
ConcatOk(a, b) == a.cols = b.cols \/ (~Repeats(a.cols) /\ ~Repeats(b.cols))

\* pd.concat([b, a], axis=0) under the labels of Concat: the rows of b first
ConcatSecondFirst(a, b) ==
    IF a.cols = b.cols THEN Sheet(a.cols, b.rows \o a.rows)
    ELSE LET New(c) == Labelled(a, c) = {}
             cols == a.cols \o SelectSeq(b.cols, New)
             Cell(f, r, c) == IF Labelled(f, c) = {} THEN NaN
                              ELSE r[CHOOSE j \in Labelled(f, c) : TRUE]
         IN  Sheet(cols,
                   [i \in 1..Len(b.rows) |->
                       [k \in 1..Len(cols) |-> Cell(b, b.rows[i], cols[k])]]
                   \o [i \in 1..Len(a.rows) |->
                          [k \in 1..Len(cols) |-> Cell(a, a.rows[i], cols[k])]])

\* pd.concat([a, b], axis=0): the rows of a, then the rows of b, under the
\* labels of a followed by the new labels of b; a cell a frame has not is NaN
Concat(a, b) ==
    IF a.cols = b.cols THEN Sheet(a.cols, a.rows \o b.rows)
    ELSE LET New(c) == Labelled(a, c) = {}
             cols == a.cols \o SelectSeq(b.cols, New)
             Cell(f, r, c) == IF Labelled(f, c) = {} THEN NaN
                              ELSE r[CHOOSE j \in Labelled(f, c) : TRUE]
         IN  Sheet(cols,
                   [i \in 1..Len(a.rows) |->
                       [k \in 1..Len(cols) |-> Cell(a, a.rows[i], cols[k])]]
                   \o [i \in 1..Len(b.rows) |->
                          [k \in 1..Len(cols) |-> Cell(b, b.rows[i], cols[k])]])

\* the value of row r of f under the first column labelled c
Under(f, r, c) == r[Least(Labelled(f, c))]

\* lines 461-464: the row padded with '' or cut to n cells
PadRow(cells, n) == [i \in 1..n |-> IF i <= Len(cells) THEN cells[i] ELSE ""]

\* lines 457-458
NotHeaderRepeat(tr) == ~tr.thead

\* lines 455-465: the body rows that are no header repeat, each n cells wide
Extracted(body, n) ==
    LET kept == SelectSeq(body, NotHeaderRepeat)
    IN  [i \in 1..Len(kept) |-> PadRow(kept[i].cells, n)]

\* soup.select_one(selector): the tables of that id, the first one is taken
Found(doc, id) ==
    LET HasId(t) == t.id = id IN SelectSeq(doc, HasId)

\* the selectors of the regular-season and of the post-season table
RegId(fn) == IF fn = "player_season_data" THEN "player_game_log_reg"
             ELSE "PlayerPerGame reg"
PostId(fn) == IF fn = "player_season_data" THEN "player_game_log_post"
              ELSE "PlayerPerGame post"

\* re.findall(' [0-9]*', x)[0] without its space: the digits after the first
\* space of x; there must be a space
SpaceScoreOk(x) == Find(x, " ", 1) <= Len(x)
SpaceScore(x) ==
    LET p == Find(x, " ", 1) IN SubSeq(x, p + 1, RunEnd(x, Digits, p + 1))

\* re.findall('-[0-9]*', x)[0] without its hyphen
HyphenScoreOk(x) == Find(x, "-", 1) <= Len(x)
HyphenScore(x) ==
    LET p == Find(x, "-", 1) IN SubSeq(x, p + 1, RunEnd(x, Digits, p + 1))

\* lines 507-513 run through on f: there is a Result column and every Result
\* holds a space, a hyphen and a first character
ScoresOk(f) ==
    \A i \in 1..Len(f.rows) :
        LET x == Under(f, f.rows[i], "Result")
        IN  x.k = "str" /\ SpaceScoreOk(x.s) /\ HyphenScoreOk(x.s) /\ Len(x.s) > 0

\* lines 507-513: TS, OS and the letter of the Result
Scores(f) ==
    LET ts == [i \in 1..Len(f.rows) |-> Str(SpaceScore(Under(f, f.rows[i], "Result").s))]
        os == [i \in 1..Len(f.rows) |-> Str(HyphenScore(Under(f, f.rows[i], "Result").s))]
        letter == [i \in 1..Len(f.rows) |-> Str(Ch(Under(f, f.rows[i], "Result").s, 1))]
    IN  SetSeries(SetSeries(SetSeries(f, "TS", ts), "OS", os), "Result", letter)

\* lines 105-107: the cells equal to '' are masked, the rows left without a
\* cell are dropped and the mask is filled with '' again
DropBlankRows(f) ==
    LET SomeCell(r) == \E j \in 1..Len(r) : r[j] # Str("")
    IN  Sheet(f.cols, SelectSeq(f.rows, SomeCell))

\* table.select_one('tr') is None: the table holds no row at all
NoRow(t) == t.thead = <<>> /\ t.body = <<>>

\* lines 85-87: the th texts of the first row of the table
FirstRowHeads(t) ==
    IF t.thead # <<>> THEN t.thead[1] ELSE SubSeq(t.body[1].cells, 1, t.body[1].th)

\* the header rows of a game log: one unlabeled column, none, and two of them
\* under a stacked header; and a header section without a row
LogHeads == {<<<<"", "Date", "Result">>>>,
             <<<<"Date", "Result">>>>,
             <<<<"", "Game">>, <<"", "Date", "", "Result">>>>,
             <<>>}

\* the labels the body rows are laid out under
Layout(thead) == IF thead = <<>> THEN <<"", "Date", "Result">> ELSE thead[Len(thead)]

\* the cell of a body row under a label
CellFor(label, date, result) ==
    IF label = "Date" THEN date ELSE IF label = "Result" THEN result ELSE "7"

\* the body rows of a table laid out under labels: a win, a loss, a row of
\* empty cells, a row cut after its first cell, a row with a cell too many,
\* and a repeat of the header
BodyLine(labels, kind, date) ==
    LET full(result) == [j \in 1..Len(labels) |-> CellFor(labels[j], date, result)]
    IN  CASE kind = "win" -> [thead |-> FALSE, th |-> 1, cells |-> full("W 110-100")]
          [] kind = "loss" -> [thead |-> FALSE, th |-> 1, cells |-> full("L 98-101")]
          [] kind = "blank" -> [thead |-> FALSE, th |-> 1,
                                cells |-> [j \in 1..Len(labels) |-> ""]]
          [] kind = "short" -> [thead |-> FALSE, th |-> 1,
                                cells |-> SubSeq(full("W 110-100"), 1, 1)]
          [] kind = "long" -> [thead |-> FALSE, th |-> 1,
                               cells |-> Append(full("W 110-100"), "x")]
          [] kind = "repeat" -> [thead |-> TRUE, th |-> Len(labels), cells |-> labels]

RegularKinds == {"win", "loss", "blank", "short", "long", "repeat"}
PostKinds == {"win", "repeat"}

RegularDate == "2024-10-22"
PostDate == "2025-04-20"

\* bodies of at most n lines of the given kinds
Kinds(K, n) == UNION {[1..k -> K] : k \in 0..n}

\* the regular-season table of a page, if it has one
RegularTablesOf(fn) ==
    {<<>>} \cup
    {<<[id |-> RegId(fn), thead |-> h,
        body |-> [i \in 1..Len(kinds) |-> BodyLine(Layout(h), kinds[i], RegularDate)]]>> :
       h \in LogHeads, kinds \in Kinds(RegularKinds, MaxBodyRows)}

\* the post-season table of a page whose regular-season header section is hr:
\* under the same header rows or under the plain one
PostTablesOf(fn, hr) ==
    {<<>>} \cup
    {<<[id |-> PostId(fn), thead |-> h,
        body |-> [i \in 1..Len(kinds) |-> BodyLine(Layout(h), kinds[i], PostDate)]]>> :
       h \in {hr, <<<<"Date", "Result">>>>}, kinds \in Kinds(PostKinds, 1)}

HeadOf(reg) == IF reg = <<>> THEN <<>> ELSE reg[1].thead

\* the pages served to a reader
Documents(fn) ==
    UNION {{reg \o post : post \in PostTablesOf(fn, HeadOf(reg))} : reg \in RegularTablesOf(fn)}

Readers == {"player_season_data", "player_avg_data"}

ReaderInit ==
    /\ LogIdle
    /\ GameIdle
    /\ DbIdle
    /\ TeamIdle
    /\ reader_pc = "fetch"
    /\ reader_fn \in Readers
    /\ document \in Documents(reader_fn)
    /\ header_cols = <<>>
    /\ regular_frame = NoSheet
    /\ post_frame = NoSheet
    /\ reader_data = NoSheet
    /\ reader_outcome = ""

\* lines 441-443 and 77-79: get_soup raises when the page does not answer
ReaderFetch ==
    /\ reader_pc = "fetch"
    /\ \E answered \in BOOLEAN :
          IF answered
          THEN reader_pc' = "regular" /\ reader_outcome' = reader_outcome
          ELSE reader_pc' = "done" /\ reader_outcome' = "UnboundLocalError"
    /\ UNCHANGED <<reader_fn, document, header_cols, regular_frame, post_frame,
                   reader_data>>
    /\ UNCHANGED outside_reader

\* lines 445-468 of player_season_data
SeasonRegular ==
    /\ reader_pc = "regular" /\ reader_fn = "player_season_data"
    /\ LET found == Found(document, RegId(reader_fn))
       IN  IF found = <<>>
           THEN /\ reader_pc' = "done" /\ reader_outcome' = "returned None"
                /\ UNCHANGED <<header_cols, regular_frame>>
           ELSE IF found[1].thead = <<>>
           THEN /\ reader_pc' = "done" /\ reader_outcome' = "IndexError"
                /\ UNCHANGED <<header_cols, regular_frame>>
           ELSE LET cols == found[1].thead[Len(found[1].thead)]
                IN  /\ header_cols' = cols
                    /\ regular_frame' =
                          SetLabel(SheetOf(cols, Extracted(found[1].body, Len(cols))),
                                   "Season Type", Str("Regular"))
                    /\ reader_pc' = "post" /\ reader_outcome' = reader_outcome
    /\ UNCHANGED <<reader_fn, document, post_frame, reader_data>>
    /\ UNCHANGED outside_reader

\* lines 472-475 and 489-502 of player_season_data
SeasonPost ==
    /\ reader_pc = "post" /\ reader_fn = "player_season_data"
    /\ LET found == Found(document, PostId(reader_fn))
       IN  IF found = <<>>
           THEN reader_pc' = "regular only" /\ post_frame' = post_frame
           ELSE /\ post_frame' =
                      SetLabel(SheetOf(header_cols,
                                       Extracted(found[1].body, Len(header_cols))),
                               "Season Type", Str("Playoff"))
                /\ reader_pc' = "concat"
    /\ UNCHANGED <<reader_fn, document, header_cols, regular_frame, reader_data,
                   reader_outcome>>
    /\ UNCHANGED outside_reader

\* the end of the reader on frame f: the unlabeled columns dropped and the
\* Result split, or the exception of the step that fails
Finish(f) ==
    IF ~DropLabelOk(f, "")
    THEN reader_data' = reader_data /\ reader_outcome' = "KeyError"
    ELSE IF Labelled(DropLabel(f, ""), "Result") = {}
    THEN reader_data' = reader_data /\ reader_outcome' = "KeyError"
    ELSE IF ~ScoresOk(DropLabel(f, ""))
    THEN reader_data' = reader_data /\ reader_outcome' = "IndexError"
    ELSE reader_data' = Scores(DropLabel(f, "")) /\ reader_outcome' = "returned"

\* lines 477-487 of player_season_data: no post-season table
SeasonRegularOnly ==
    /\ reader_pc = "regular only"
    /\ Finish(regular_frame)
    /\ reader_pc' = "done"
    /\ UNCHANGED <<reader_fn, document, header_cols, regular_frame, post_frame>>
    /\ UNCHANGED outside_reader

\* lines 504-515 of player_season_data; both frames carry the same labels
SeasonConcat ==
    /\ reader_pc = "concat" /\ reader_fn = "player_season_data"
    /\ Finish(Concat(regular_frame, post_frame))
    /\ reader_pc' = "done"
    /\ UNCHANGED <<reader_fn, document, header_cols, regular_frame, post_frame>>
    /\ UNCHANGED outside_reader

\* lines 81-107 of player_avg_data; a selector that finds no table leaves
\* table None, and table.select_one raises AttributeError
AvgRegular ==
    /\ reader_pc = "regular" /\ reader_fn = "player_avg_data"
    /\ LET found == Found(document, RegId(reader_fn))
       IN  IF found = <<>> \/ NoRow(found[1])
           THEN /\ reader_pc' = "done" /\ reader_outcome' = "AttributeError"
                /\ UNCHANGED <<header_cols, regular_frame>>
           ELSE LET cols == FirstRowHeads(found[1])
                IN  /\ header_cols' = cols
                    /\ regular_frame' =
                          DropBlankRows(SheetOf(cols, Extracted(found[1].body, Len(cols))))
                    /\ reader_pc' = "post" /\ reader_outcome' = reader_outcome
    /\ UNCHANGED <<reader_fn, document, post_frame, reader_data>>
    /\ UNCHANGED outside_reader

\* lines 109-135 of player_avg_data
AvgPost ==
    /\ reader_pc = "post" /\ reader_fn = "player_avg_data"
    /\ LET found == Found(document, PostId(reader_fn))
       IN  IF found = <<>> \/ NoRow(found[1])
           THEN /\ reader_pc' = "done" /\ reader_outcome' = "AttributeError"
                /\ UNCHANGED <<header_cols, post_frame>>
           ELSE LET cols == FirstRowHeads(found[1])
                IN  /\ header_cols' = cols
                    /\ post_frame' =
                          DropBlankRows(SheetOf(cols, Extracted(found[1].body, Len(cols))))
                    /\ reader_pc' = "concat" /\ reader_outcome' = reader_outcome
    /\ UNCHANGED <<reader_fn, document, regular_frame, reader_data>>
    /\ UNCHANGED outside_reader

\* lines 137-143 of player_avg_data; reset_index renumbers the rows, which a
\* Sheet keeps by position
AvgConcat ==
    /\ reader_pc = "concat" /\ reader_fn = "player_avg_data"
    /\ LET reg == SetLabel(regular_frame, "Season Type", Str("Regular"))
           post == SetLabel(post_frame, "Season Type", Str("Playoff"))
       IN  /\ regular_frame' = reg
           /\ post_frame' = post
           /\ IF ConcatOk(reg, post)
              THEN reader_data' = Concat(reg, post) /\ reader_outcome' = "returned"
              ELSE reader_data' = reader_data /\ reader_outcome' = "InvalidIndexError"
    /\ reader_pc' = "done"
    /\ UNCHANGED <<reader_fn, document, header_cols>>
    /\ UNCHANGED outside_reader

ReaderNext ==
    \/ ReaderFetch
    \/ SeasonRegular
    \/ SeasonPost
    \/ SeasonRegularOnly
    \/ SeasonConcat
    \/ AvgRegular
    \/ AvgPost
    \/ AvgConcat

ReaderSpec == ReaderInit /\ [][ReaderNext]_vars

-----------------------------------------------------------------------------
(* SQLiteClient (src/database_conn.py) on a table players that a caller made
   with create_table from {player_id: INTEGER PRIMARY KEY, team: TEXT,
   pts: REAL}.  A stored row is a record over the three columns, "NULL" for
   the SQL null; a row mapping (the dict handed to insert and upsert) is a
   function from the columns it names to their values.  Python's sqlite3
   opens a transaction before the first INSERT, UPDATE or DELETE that follows
   a commit, so that the connection sees rows the file does not hold yet
   until commit() is called, and no longer sees them after rollback() or
   close(). *)

\* the calls of the client's methods that one run makes at most
MaxCalls == 2

Ids == {"1", "2"}
Teams == {"LAL", "DEN"}
Points == {"27.1"}

KeyCols == <<"player_id">>

Columns == {"player_id", "team", "pts"}

\* the row mappings a caller hands over: the key, and any of the other columns
RowMaps ==
    LET extras == {<<>>}
                    \cup {("team" :> t) : t \in Teams}
                    \cup {("pts" :> p) : p \in Points}
                    \cup {("team" :> t) @@ ("pts" :> p) : t \in Teams, p \in Points}
    IN  {("player_id" :> k) @@ e : k \in Ids, e \in extras}

\* the row a mapping makes when it is inserted: NULL in the columns it leaves out
Stored(m) ==
    [c \in Columns |-> IF c \in DOMAIN m THEN m[c] ELSE "NULL"]

\* the rows of a table that hold the key of a mapping
SameKey(t, m) == {r \in t : r["player_id"] = m["player_id"]}

\* INSERT INTO players (...) VALUES (...): the primary key refuses a second row
InsertOk(t, m) == SameKey(t, m) = {}

InsertSql(t, m) == t \cup {Stored(m)}

\* the list of "c=excluded.c" of upsert: the columns outside conflict_cols
assignments(m, conflict_cols) ==
    DOMAIN m \ {conflict_cols[i] : i \in 1..Len(conflict_cols)}

\* INSERT ... ON CONFLICT(...) DO UPDATE SET <assignments>; with nothing after
\* SET the statement does not compile
UpsertOk(m, conflict_cols) == assignments(m, conflict_cols) # {}

UpsertSql(t, m, conflict_cols) ==
    IF SameKey(t, m) = {}
    THEN t \cup {Stored(m)}
    ELSE {IF r \in SameKey(t, m)
          THEN [c \in Columns |->
                   IF c \in assignments(m, conflict_cols) THEN m[c] ELSE r[c]]
          ELSE r : r \in t}

\* DELETE FROM players WHERE player_id = ?
DeleteSql(t, m) == t \ SameKey(t, m)

\* cursor.executemany of the INSERT over a list of mappings: the rows before
\* the one that fails stay in the connection's open transaction
RECURSIVE ManySql(_, _)
ManySql(t, ms) ==
    IF ms = <<>> THEN [ok |-> TRUE, rows |-> t]
    ELSE IF ~InsertOk(t, Head(ms)) THEN [ok |-> FALSE, rows |-> t]
    ELSE ManySql(InsertSql(t, Head(ms)), Tail(ms))

LeBron == ("player_id" :> "1") @@ ("team" :> "LAL") @@ ("pts" :> "27.1")
Jokic == ("player_id" :> "2") @@ ("team" :> "DEN")

\* what the file holds before the client is used
Tables == {{}, {Stored(LeBron)}, {Stored(LeBron), Stored(Jokic)}}

\* the lists handed to executemany
ParamLists == {<<LeBron, Jokic>>, <<Jokic, LeBron>>, <<Jokic, Jokic>>}

DbInit ==
    /\ LogIdle
    /\ GameIdle
    /\ ReaderIdle
    /\ TeamIdle
    /\ db_pc = "new"
    /\ db_conn = "none"
    /\ db_file \in Tables
    /\ db_view = db_file
    /\ db_exc = ""
    /\ db_calls = 0
    /\ last_call = NoCall
    /\ last_result = ""
    /\ before_call = {}
    /\ at_txn = {}
    /\ txn_commits = 0
    /\ txn_end = ""
    /\ at_exit = [file |-> {}, view |-> {}, exc |-> ""]
    /\ db_open = 0
    /\ last_conn = NoStep

\* the body of a with block or of a transaction() block is running
InBody == db_pc \in {"block", "txn"}

\* an exception leaves the body that is running
Raising == IF db_pc = "txn" THEN "txn raised" ELSE "raised"

\* connect (42-47) with no test of _conn: a connection is opened every time
OpenedAlways(held) == 1

\* connect (42-47): how many connections it opens, by what _conn holds
Opened(held) == IF held = "none" THEN 1 ELSE 0

\* close (57-60): how many connections it closes
Shut(held) == IF held = "none" THEN 0 ELSE 1

\* a step that calls connect(), directly or through the property conn (75-80)
Connects(op) ==
    /\ db_conn' = "open"
    /\ db_open' = db_open + Opened(db_conn)
    /\ last_conn' = [op |-> op, before |-> db_conn, opened |-> Opened(db_conn)]

\* a step that calls close()
Closes(op) ==
    /\ db_conn' = "none"
    /\ db_open' = db_open - Shut(db_conn)
    /\ last_conn' = [op |-> op, before |-> db_conn, opened |-> 0]

\* __enter__ (62-64): connect() opens the connection
Enter ==
    /\ db_pc = "new"
    /\ db_pc' = "block"
    /\ Connects("__enter__")
    /\ UNCHANGED <<db_file, db_view, db_exc, db_calls, last_call, last_result,
                   before_call, at_txn, txn_commits, txn_end, at_exit>>
    /\ UNCHANGED outside_db

\* execute (94-99) of one statement: conn opens the connection when there is
\* none, cursor.execute changes what the connection sees or raises, and
\* commit() on line 98 writes everything the connection sees to the file
Statement(call, ok, error, seen) ==
    /\ InBody
    /\ db_calls < MaxCalls
    /\ db_calls' = db_calls + 1
    /\ Connects(call.op)
    /\ last_call' = call
    /\ before_call' = db_view
    /\ txn_end' = ""
    /\ IF ok
       THEN /\ db_view' = seen
            /\ db_file' = seen
            /\ txn_commits' = txn_commits + 1
            /\ last_result' = "ok"
            /\ UNCHANGED <<db_pc, db_exc>>
       ELSE /\ db_view' = seen
            /\ last_result' = error
            /\ db_exc' = error
            /\ db_pc' = Raising
            /\ UNCHANGED <<db_file, txn_commits>>
    /\ UNCHANGED <<at_txn, at_exit>>
    /\ UNCHANGED outside_db

\* execute (94-99) with the DELETE of the usage notes
execute ==
    \E m \in {("player_id" :> k) : k \in Ids} :
        Statement([op |-> "execute", rows |-> <<m>>], TRUE, "",
                  DeleteSql(db_view, m))

\* insert (145-149)
insert ==
    \E m \in RowMaps :
        Statement([op |-> "insert", rows |-> <<m>>],
                  InsertOk(db_view, m), "IntegrityError",
                  IF InsertOk(db_view, m) THEN InsertSql(db_view, m) ELSE db_view)

\* upsert (151-165), conflict_cols the primary key
upsert ==
    \E m \in RowMaps :
        Statement([op |-> "upsert", rows |-> <<m>>],
                  UpsertOk(m, KeyCols), "OperationalError",
                  IF UpsertOk(m, KeyCols)
                  THEN UpsertSql(db_view, m, KeyCols) ELSE db_view)

\* executemany (101-106) of the INSERT
executemany ==
    \E ms \in ParamLists :
        Statement([op |-> "executemany", rows |-> ms],
                  ManySql(db_view, ms).ok, "IntegrityError",
                  ManySql(db_view, ms).rows)

\* connect (42-47), called in the body
connect ==
    /\ InBody
    /\ db_calls < MaxCalls
    /\ db_calls' = db_calls + 1
    /\ Connects("connect")
    /\ txn_end' = ""
    /\ UNCHANGED <<db_pc, db_file, db_view, db_exc, last_call, last_result,
                   before_call, at_txn, txn_commits, at_exit>>
    /\ UNCHANGED outside_db

\* query (108-116): a SELECT through the property conn; it writes nothing
query ==
    /\ InBody
    /\ db_calls < MaxCalls
    /\ db_calls' = db_calls + 1
    /\ Connects("query")
    /\ txn_end' = ""
    /\ UNCHANGED <<db_pc, db_file, db_view, db_exc, last_call, last_result,
                   before_call, at_txn, txn_commits, at_exit>>
    /\ UNCHANGED outside_db

\* close (57-60), called in the body: the connection's open transaction is lost
close ==
    /\ InBody
    /\ db_calls < MaxCalls
    /\ db_calls' = db_calls + 1
    /\ Closes("close")
    /\ db_view' = db_file
    /\ txn_end' = ""
    /\ UNCHANGED <<db_pc, db_file, db_exc, last_call, last_result, before_call,
                   at_txn, txn_commits, at_exit>>
    /\ UNCHANGED outside_db

\* the using code raises in the body
Raise ==
    /\ InBody
    /\ db_exc' = "ValueError"
    /\ db_pc' = Raising
    /\ txn_end' = ""
    /\ UNCHANGED <<db_conn, db_file, db_view, db_calls, last_call, last_result,
                   before_call, at_txn, txn_commits, at_exit, db_open, last_conn>>
    /\ UNCHANGED outside_db

\* the using code catches, in the body, what a call in the body raised
Catch ==
    /\ db_pc \in {"raised", "txn raised"}
    /\ db_exc # "ValueError"
    /\ db_calls < MaxCalls
    /\ db_pc' = IF db_pc = "txn raised" THEN "txn" ELSE "block"
    /\ db_exc' = ""
    /\ txn_end' = ""
    /\ UNCHANGED <<db_conn, db_file, db_view, db_calls, last_call, last_result,
                   before_call, at_txn, txn_commits, at_exit, db_open, last_conn>>
    /\ UNCHANGED outside_db

\* transaction (83-91) up to its yield on line 87: no statement is run
TxnEnter ==
    /\ db_pc = "block"
    /\ db_pc' = "txn"
    /\ at_txn' = db_file
    /\ txn_commits' = 0
    /\ txn_end' = ""
    /\ UNCHANGED <<db_conn, db_file, db_view, db_exc, db_calls, last_call,
                   last_result, before_call, at_exit, db_open, last_conn>>
    /\ UNCHANGED outside_db

\* transaction, line 88: the body ended and conn.commit() runs
TxnCommit ==
    /\ db_pc = "txn"
    /\ db_pc' = "block"
    /\ Connects("commit")
    /\ db_file' = db_view
    /\ txn_commits' = txn_commits + 1
    /\ txn_end' = "commit"
    /\ UNCHANGED <<db_view, db_exc, db_calls, last_call, last_result,
                   before_call, at_txn, at_exit>>
    /\ UNCHANGED outside_db

\* transaction, lines 89-91: the body raised, conn.rollback() runs and the
\* exception is raised again
TxnRollback ==
    /\ db_pc = "txn raised"
    /\ db_pc' = "raised"
    /\ Connects("rollback")
    /\ db_view' = db_file
    /\ txn_end' = "rollback"
    /\ UNCHANGED <<db_file, db_exc, db_calls, last_call, last_result,
                   before_call, at_txn, txn_commits, at_exit>>
    /\ UNCHANGED outside_db

\* __exit__ with a commit on both branches
ExitCommitting ==
    /\ db_pc \in {"block", "raised"}
    /\ db_pc' = "left"
    /\ at_exit' = [file |-> db_file, view |-> db_view, exc |-> db_exc]
    /\ db_file' = IF db_conn = "open" THEN db_view ELSE db_file
    /\ db_view' = db_file'
    /\ Closes("__exit__")
    /\ txn_end' = ""
    /\ UNCHANGED <<db_exc, db_calls, last_call, last_result, before_call,
                   at_txn, txn_commits>>
    /\ UNCHANGED outside_db

\* __exit__ (66-73): with a connection, rollback() when an exception leaves
\* the block and commit() otherwise; then close().  It returns None, so the
\* exception goes on
Exit ==
    /\ db_pc \in {"block", "raised"}
    /\ db_pc' = "left"
    /\ at_exit' = [file |-> db_file, view |-> db_view, exc |-> db_exc]
    /\ db_file' = IF db_conn = "open" /\ db_exc = "" THEN db_view ELSE db_file
    /\ db_view' = db_file'
    /\ Closes("__exit__")
    /\ txn_end' = ""
    /\ UNCHANGED <<db_exc, db_calls, last_call, last_result, before_call,
                   at_txn, txn_commits>>
    /\ UNCHANGED outside_db

DbNext ==
    \/ Enter
    \/ execute
    \/ insert
    \/ upsert
    \/ executemany
    \/ connect
    \/ query
    \/ close
    \/ Raise
    \/ Catch
    \/ TxnEnter
    \/ TxnCommit
    \/ TxnRollback
    \/ Exit

DbSpec == DbInit /\ [][DbNext]_vars

-----------------------------------------------------------------------------
(* The team, franchise and league readers of src/scrape_functions.py:       *)
(* team_historical_data, team_season_data, team_avg_data, team_per36_data,  *)
(* all_team_historical_data and season_data.  A table of the page is its id *)
(* and its rows in document order; a row tells its section (thead, tbody),  *)
(* its classes and its cells; a cell tells its tag, its scope, whether it   *)
(* has a class attribute, its classes in the order written, and its text.   *)

MaxTeamRows == 2

\* lines 64-70
teams == <<"ATL", "BOS", "NJN", "CHI", "CLE", "DAL", "DEN", "DET",
           "GSW", "HOU", "IND", "LAC", "LAL", "MEM", "MIA", "MIL",
           "MIN", "NOH", "NYK", "OKC", "ORL", "PHI", "PHO", "POR",
           "SAC", "SAS", "TOR", "UTA", "WAS", "CHA">>

\* a reader that fetches whatever code it is given
AnyTeam(team) == TRUE

\* lines 553, 589, 627, 663: team in self.teams
TeamListed(team) == \E i \in 1..Len(teams) : teams[i] = team

\* the readers that take a team code
TeamReaders == {"team_historical_data", "team_season_data", "team_avg_data",
                "team_per36_data"}

\* the readers without an argument
StaticReaders == {"all_team_historical_data", "season_data"}

\* lines 559, 597, 635, 671, 524, 703: the id of the table the reader selects
TableId(fn, team) ==
    CASE fn = "team_historical_data" -> team
      [] fn = "team_season_data" -> "roster"
      [] fn = "team_avg_data" -> "per_game_stats"
      [] fn = "team_per36_data" -> "per_minute_stats"
      [] fn = "all_team_historical_data" -> "teams_active"
      [] fn = "season_data" -> "stats"

Th(scope, class, text) ==
    [tag |-> "th", scope |-> scope, classed |-> TRUE, class |-> class, text |-> text]
BareTh(scope, text) ==
    [tag |-> "th", scope |-> scope, classed |-> FALSE, class |-> <<>>, text |-> text]
Td(text) ==
    [tag |-> "td", scope |-> "", classed |-> FALSE, class |-> <<>>, text |-> text]

Tr(section, class, cells) == [section |-> section, class |-> class, cells |-> cells]

\* the header cells: the name column sorts ascending and is set left or
\* centred, the number column is centred
HeadCells(align) == <<Th("col", <<"sort_default_asc", align>>, "Name"),
                      Th("col", <<"sort_default_asc", "center">>, "W")>>

HeadAligns == {"left", "center"}

\* the body rows of a table: a line of data, a line of empty cells, a line cut
\* after its first cell, a line with a cell too many, a repeat of the header,
\* a repeat whose first cell is not set left, a line of td cells only, and a
\* line whose th has no class attribute
TeamLine(kind) ==
    CASE kind = "data" -> Tr("tbody", {}, <<Th("row", <<"left">>, "Hawks"), Td("46")>>)
      [] kind = "blank" -> Tr("tbody", {}, <<Th("row", <<"left">>, ""), Td("")>>)
      [] kind = "short" -> Tr("tbody", {}, <<Th("row", <<"left">>, "Hawks")>>)
      [] kind = "long" -> Tr("tbody", {"full_table"},
                             <<Th("row", <<"left">>, "Hawks"), Td("46"), Td("x")>>)
      [] kind = "repeat" -> Tr("tbody", {"thead"}, HeadCells("left"))
      [] kind = "repeat centred" -> Tr("tbody", {"thead"}, HeadCells("center"))
      [] kind = "td only" -> Tr("tbody", {}, <<Td("Hawks"), Td("46")>>)
      [] kind = "bare th" -> Tr("tbody", {}, <<BareTh("row", "Hawks"), Td("46")>>)

TeamKinds == {"data", "blank", "short", "long", "repeat", "repeat centred",
              "td only", "bare th"}

\* the pages served: without the table, or with it under one header row
TeamSites(id) ==
    {<<>>} \cup
    {<<[id |-> id,
        rows |-> <<Tr("thead", {}, HeadCells(a))>>
                 \o [i \in 1..Len(kinds) |-> TeamLine(kinds[i])]]>> :
       a \in HeadAligns, kinds \in Kinds(TeamKinds, MaxTeamRows)}

\* the codes a caller passes: two of the list, and the codes the site uses
\* today for the Nets and the Pelicans, which the list has not
TeamArgs == {"ATL", "CHA", "BRK", "NOP"}

TeamCalls == (TeamReaders \X TeamArgs) \cup (StaticReaders \X {""})

TeamInit ==
    /\ LogIdle
    /\ GameIdle
    /\ ReaderIdle
    /\ DbIdle
    /\ \E call \in TeamCalls :
          /\ team_fn = call[1]
          /\ team_arg = call[2]
          /\ team_pc = IF call[1] \in TeamReaders THEN "check" ELSE "fetch"
          /\ team_site \in TeamSites(TableId(call[1], call[2]))
    /\ team_fetched = <<>>
    /\ team_cols = <<>>
    /\ team_frame = NoSheet
    /\ team_outcome = ""

\* the cells of the rows, in document order
RECURSIVE CellsOf(_)
CellsOf(trs) == IF trs = <<>> THEN <<>> ELSE Head(trs).cells \o CellsOf(Tail(trs))

TextsOf(cells) == [j \in 1..Len(cells) |-> cells[j].text]

\* table.select('th[scope="col"]'): the th cells of scope col of the whole
\* table, the header repeats of the body included
ScopeCols(t) ==
    LET IsCol(c) == c.tag = "th" /\ c.scope = "col"
    IN  TextsOf(SelectSeq(CellsOf(t.rows), IsCol))

\* table.select('th[class="sort_default_asc center"]'): the th cells whose
\* class attribute reads exactly so
SortCols(t) ==
    LET IsSort(c) == c.tag = "th" /\ c.classed
                         /\ c.class = <<"sort_default_asc", "center">>
    IN  TextsOf(SelectSeq(CellsOf(t.rows), IsSort))

\* table.select('tbody tr')
BodyRows(t) == LET InTbody(tr) == tr.section = "tbody" IN SelectSeq(t.rows, InTbody)

\* 'class' in tr.attrs and 'thead' in tr['class']
HeaderRepeat(tr) == "thead" \in tr.class

\* lines 575-581: the texts of the cells, padded with '' or cut to n
RowOf(tr, n) == PadRow(TextsOf(tr.cells), n)

\* lines 570-581 (606-617, 642-653, 678-689): the rows of the body that are
\* no header repeat
TeamRowsOf(t, n) ==
    LET Kept(tr) == ~HeaderRepeat(tr)
        kept == SelectSeq(BodyRows(t), Kept)
    IN  [i \in 1..Len(kept) |-> RowOf(kept[i], n)]

\* tr.select_one('th'): the th cells of the row, the first one is taken
FirstTh(tr) == LET IsTh(c) == c.tag = "th" IN SelectSeq(tr.cells, IsTh)

\* lines 532-535: tr.select_one('th')['class'] is read first; it raises on a
\* row without a th and on a th without a class attribute
LeftOk(tr) == FirstTh(tr) # <<>> /\ FirstTh(tr)[1].classed
LeftError(tr) == IF FirstTh(tr) = <<>> THEN "TypeError" ELSE "KeyError"

\* lines 532-535: the row is skipped
LeftRepeat(tr) ==
    /\ \E k \in 1..Len(FirstTh(tr)[1].class) : FirstTh(tr)[1].class[k] = "left"
    /\ HeaderRepeat(tr)

\* lines 530-543
AllTeamsRowsOf(t, n) ==
    LET Kept(tr) == ~LeftRepeat(tr)
        kept == SelectSeq(BodyRows(t), Kept)
    IN  [i \in 1..Len(kept) |-> RowOf(kept[i], n)]

\* lines 712-722: every tr of the table, those of the header section too
SeasonRowsOf(t, n) ==
    LET Kept(tr) == ~HeaderRepeat(tr)
        kept == SelectSeq(t.rows, Kept)
    IN  [i \in 1..Len(kept) |-> RowOf(kept[i], n)]

\* the table the reader selects, if the page has it
TeamTable == Found(team_site, TableId(team_fn, team_arg))

\* lines 553-555 (589-591, 627-629, 663-665)
TeamListCheck ==
    /\ team_pc = "check"
    /\ IF TeamListed(team_arg)
       THEN team_pc' = "fetch" /\ team_outcome' = team_outcome
       ELSE team_pc' = "done" /\ team_outcome' = "returned None"
    /\ UNCHANGED <<team_fn, team_arg, team_site, team_fetched, team_cols, team_frame>>
    /\ UNCHANGED outside_club

\* lines 557, 593, 631, 667, 522, 699: get_soup raises when the page does not
\* answer
TeamFetch ==
    /\ team_pc = "fetch"
    /\ \E answered \in BOOLEAN :
          /\ team_fetched' = Append(team_fetched,
                                    [team |-> team_arg, answered |-> answered])
          /\ IF answered
             THEN team_pc' = "select" /\ team_outcome' = team_outcome
             ELSE team_pc' = "done" /\ team_outcome' = "UnboundLocalError"
    /\ UNCHANGED <<team_fn, team_arg, team_site, team_cols, team_frame>>
    /\ UNCHANGED outside_club

\* lines 559-568 (597-606, 635-640, 671-676)
TeamSelect ==
    /\ team_pc = "select" /\ team_fn \in TeamReaders
    /\ IF TeamTable = <<>>
       THEN /\ team_pc' = "done" /\ team_outcome' = "returned None"
            /\ team_cols' = team_cols
       ELSE /\ team_pc' = "rows" /\ team_outcome' = team_outcome
            /\ team_cols' = ScopeCols(TeamTable[1])
    /\ UNCHANGED <<team_fn, team_arg, team_site, team_fetched, team_frame>>
    /\ UNCHANGED outside_club

\* lines 570-583 (608-621, 644-657, 680-693)
TeamExtract ==
    /\ team_pc = "rows" /\ team_fn \in TeamReaders
    /\ team_frame' = SheetOf(team_cols, TeamRowsOf(TeamTable[1], Len(team_cols)))
    /\ team_pc' = "done" /\ team_outcome' = "returned"
    /\ UNCHANGED <<team_fn, team_arg, team_site, team_fetched, team_cols>>
    /\ UNCHANGED outside_club

\* lines 524-547; without the table teams is None and teams.select raises
all_team_historical_data ==
    /\ team_pc = "select" /\ team_fn = "all_team_historical_data"
    /\ IF TeamTable = <<>>
       THEN /\ team_outcome' = "AttributeError"
            /\ UNCHANGED <<team_cols, team_frame>>
       ELSE LET cols == ScopeCols(TeamTable[1])
                body == BodyRows(TeamTable[1])
                bad == {i \in 1..Len(body) : ~LeftOk(body[i])}
            IN  /\ team_cols' = cols
                /\ IF bad # {}
                   THEN /\ team_outcome' = LeftError(body[Least(bad)])
                        /\ team_frame' = team_frame
                   ELSE /\ team_outcome' = "returned"
                        /\ team_frame' =
                              SheetOf(cols, AllTeamsRowsOf(TeamTable[1], Len(cols)))
    /\ team_pc' = "done"
    /\ UNCHANGED <<team_fn, team_arg, team_site, team_fetched>>
    /\ UNCHANGED outside_club

\* lines 703-725
season_data ==
    /\ team_pc = "select" /\ team_fn = "season_data"
    /\ IF TeamTable = <<>>
       THEN /\ team_outcome' = "returned None"
            /\ UNCHANGED <<team_cols, team_frame>>
       ELSE LET cols == SortCols(TeamTable[1])
            IN  /\ team_cols' = cols
                /\ team_outcome' = "returned"
                /\ team_frame' = SheetOf(cols, SeasonRowsOf(TeamTable[1], Len(cols)))
    /\ team_pc' = "done"
    /\ UNCHANGED <<team_fn, team_arg, team_site, team_fetched>>
    /\ UNCHANGED outside_club

TeamNext ==
    \/ TeamListCheck
    \/ TeamFetch
    \/ TeamSelect
    \/ TeamExtract
    \/ all_team_historical_data
    \/ season_data

TeamSpec == TeamInit /\ [][TeamNext]_vars

-----------------------------------------------------------------------------

(* What the claims speak of. *)

\* the call got its page and ran to its end
Finished == pc = "done" /\ outcome # "UnboundLocalError"

Returned == pc = "done" /\ outcome = "returned"

\* the per-game rows that carry the start mark, by position in reg_season
StartedAt == {i \in 1..NRows(reg_season) : Started(reg_season.rows[i])}

\* the position in reg_season of the k-th row that carries the start mark
Src(k) == CHOOSE i \in StartedAt : Cardinality({j \in StartedAt : j < i}) = k - 1

\* the cell text of column c in the source of the k-th played row
SrcText(k, c) == reg_season.rows[Src(k)].v[c].s

\* the value float() gives the text s
AsFloat(s) == Flt(FloatVal(s))

-----------------------------------------------------------------------------
\* C1: every emitted row has exactly as many cells as the table declares
\* columns, the last batch of a game log included.  The batches of
\* get_player_data break it: the last one holds what is left.
C1_RowWidth ==
    \A i \in 1..Len(rows) : Len(rows[i]) = Len(columns)

-----------------------------------------------------------------------------
\* C2: on return the played partition holds exactly the per-game rows whose
\* GS is '*' and the missed partition exactly the others, each in document
\* order, and every per-game row is in one of the two.
C2_Partitions ==
    Returned =>
        /\ NRows(played) = Cardinality(StartedAt)
        /\ \A k \in 1..NRows(played) :
              /\ played.rows[k].v["Opp"].s = SrcText(k, "Opp")
              /\ played.rows[k].v["Team"].s = SrcText(k, "Team")
              /\ played.rows[k].v["Date"].s = DateOf(SrcText(k, "Date"))
              /\ played.rows[k].v["PTS"] = AsFloat(SrcText(k, "PTS"))
        /\ NRows(played) + NRows(missed) = NRows(reg_season)
        /\ \A k \in 1..NRows(missed) :
              /\ missed.rows[k].v["GS"] # Str("*")
              /\ missed.rows[k] = reg_season.rows[missed.rows[k].idx + 1]
              /\ k > 1 => missed.rows[k - 1].idx < missed.rows[k].idx

\* a return with a started game, a bench game and a placeholder row
C2_Witness ==
    /\ Returned
    /\ NRows(played) >= 1
    /\ \E k \in 1..NRows(missed) : missed.rows[k].v["GS"] = Str("Inactive")
    /\ \E k \in 1..NRows(missed) : missed.rows[k].v["GS"] = Str("")

-----------------------------------------------------------------------------
\* C3: the log of three per-game rows and no totals row (played, blank
\* did-not-play, played) is processed: two played rows, one missed row.
C3_Scenario ==
    (Finished /\ table = PlayedA \o DidNotPlay \o PlayedB) =>
        (outcome = "returned" /\ NRows(played) = 2 /\ NRows(missed) = 1)

-----------------------------------------------------------------------------
\* the roster columns other than the own team that hold 1 in row r
Ones(r) == {t \in TeamSet \ {curr_team} : t \in DOMAIN r.v /\ r.v[t] = Int_(1)}

\* C4: in every returned record the opponent one-hot columns (the roster
\* columns other than the own team, each 0 or 1) sum to exactly 1.
C4_OneHot ==
    Returned => \A k \in 1..NRows(played) : Cardinality(Ones(played.rows[k])) = 1

-----------------------------------------------------------------------------
\* how many played records name team t
Games(t) == Cardinality({k \in 1..NRows(played) : played.rows[k].v["Team"] = Str(t)})

\* C5: the team whose column is omitted is the most frequent Team of the
\* played records (no team is named by more of them), and every other roster
\* team has a column.
C5_OwnTeam ==
    Returned =>
        /\ \A t \in TeamSet : Games(t) <= Games(curr_team)
        /\ TeamSet \ {curr_team} \subseteq played.cols

-----------------------------------------------------------------------------
\* C6: a played row whose team score is 0 makes the call raise; no record
\* set is returned that holds such a row.
C6_ZeroTeamScore ==
    Returned => \A k \in 1..NRows(played) : played.rows[k].v["Team Score"] # Flt(0)

-----------------------------------------------------------------------------
\* the form <W|L> <a>-<b>, a and b runs of digits
WellFormed(r) ==
    LET h == Find(r, "-", 1)
    IN  /\ Ch(r, 1) \in {"W", "L"} /\ Ch(r, 2) = " "
        /\ h > 3 /\ h < Len(r)
        /\ AllDigits(SubSeq(r, 3, h - 1)) /\ AllDigits(From(r, h + 1))

\* the integers a and b of a well-formed Result text
ScoreA(r) == DecVal(SubSeq(r, 3, Find(r, "-", 1) - 1))
ScoreB(r) == DecVal(From(r, Find(r, "-", 1) + 1))

\* the started rows whose Result is well formed
GoodAt == {i \in StartedAt : WellFormed(reg_season.rows[i].v["Result"].s)}

\* C7: a played row with a malformed Result is left out and the call still
\* returns, with every well-formed played row in the played partition (logs
\* that hold a well-formed row and no team score of 0).
C7_MalformedDropped ==
    (/\ Finished /\ NRows(reg_season) > 0 /\ GoodAt # {}
     /\ \A i \in GoodAt : ScoreA(reg_season.rows[i].v["Result"].s) # 0
     /\ \A i \in StartedAt : /\ TimeOk(reg_season.rows[i].v["MP"].s)
                             /\ IntOk(reg_season.rows[i].v["PTS"].s)
                             /\ FloatOk(reg_season.rows[i].v["TRB"].s)
                             /\ reg_season.rows[i].v["Team"].s \in TeamSet)
    => (outcome = "returned" /\ NRows(played) = Cardinality(GoodAt))

-----------------------------------------------------------------------------
-----------------------------------------------------------------------------
\* the form digits:digits
ClockForm(t) ==
    LET c == Find(t, ":", 1)
    IN  /\ c > 1 /\ c < Len(t)
        /\ AllDigits(Upto(t, c - 1)) /\ AllDigits(From(t, c + 1))

\* C9: an MP text M:S of the form digits:digits becomes 60*M+S seconds, and
\* a played row whose MP has another form makes the call fail.
C9_Duration ==
    /\ Returned =>
          \A k \in 1..NRows(played) :
              LET t == SrcText(k, "MP")
                  c == Find(t, ":", 1)
              IN  ClockForm(t) =>
                     played.rows[k].v["MP"] =
                         Int_(60 * DecVal(Upto(t, c - 1)) + DecVal(From(t, c + 1)))
    /\ (Finished /\ \E i \in StartedAt : ~ClockForm(reg_season.rows[i].v["MP"].s))
          => outcome # "returned"

-----------------------------------------------------------------------------
\* TRB + AST + 0.5*PTS + STL + BLK - TOV + double_double + triple_double of
\* the record v, in ten-thousandths
OwnScore(v) ==
    10 * (v["TRB"].n + v["AST"].n + v["STL"].n + v["BLK"].n - v["TOV"].n)
    + 5 * v["PTS"].n
    + 10 * Milli * (v["double_double"].n + v["triple_double"].n)

\* x is y rounded to a multiple of 100 (two decimals, in ten-thousandths)
RoundedTo2(x, y) == x % 100 = 0 /\ x - y <= 50 /\ y - x <= 50

\* C10: the fantasy_score of every returned played record is TRB + AST +
\* 0.5*PTS + STL + BLK - TOV + double_double + triple_double of the row's own
\* statistics, rounded to 2 decimals; 10, 5, 20, 2, 1, 3 give 26.00.
C10_FantasyScore ==
    Returned =>
        \A k \in 1..NRows(played) :
            LET v == played.rows[k].v
            IN  /\ \A c \in scored : v[c] = AsFloat(SrcText(k, c))
                /\ v["fantasy_score"].k = "float"
                /\ RoundedTo2(10 * v["fantasy_score"].n, OwnScore(v))
                /\ (/\ SrcText(k, "TRB") = "10" /\ SrcText(k, "AST") = "5"
                    /\ SrcText(k, "PTS") = "20" /\ SrcText(k, "STL") = "2"
                    /\ SrcText(k, "BLK") = "1" /\ SrcText(k, "TOV") = "3")
                   => v["fantasy_score"] = Flt(26 * Milli)

\* a returned record of 10 rebounds, 5 assists, 20 points, 2 steals, 1 block
\* and 3 turnovers, scored 26.00, beside one with half a point in its score
C10_Witness ==
    /\ Returned
    /\ \E k \in 1..NRows(played) :
          /\ played.rows[k].v["TRB"] = Flt(10 * Milli)
          /\ played.rows[k].v["PTS"] = Flt(20 * Milli)
          /\ played.rows[k].v["double_double"] = Int_(1)
          /\ played.rows[k].v["fantasy_score"] = Flt(26 * Milli)
    /\ \E k \in 1..NRows(played) : played.rows[k].v["fantasy_score"].n % Milli = 500

-----------------------------------------------------------------------------
\* how many of PTS, TRB, AST, STL, BLK are at least 10 in the source of the
\* k-th played row
Reached(k) == Cardinality({c \in cats : FloatVal(SrcText(k, c)) >= 10 * Milli})

\* C11: with n the number of the categories PTS, TRB, AST, STL, BLK of a
\* played row that are at least 10 (exactly 10 counts), double_double is 1
\* when n >= 2 and 0 otherwise, triple_double is 2 when n >= 3 and 0 otherwise.
C11_Bonuses ==
    Returned =>
        \A k \in 1..NRows(played) :
            /\ played.rows[k].v["double_double"] = Int_(IF Reached(k) >= 2 THEN 1 ELSE 0)
            /\ played.rows[k].v["triple_double"] = Int_(IF Reached(k) >= 3 THEN 2 ELSE 0)

\* a returned record with two categories at 10 or more, one of them at exactly
\* 10 (bonuses 1 and 0), beside one with three or more (bonuses 1 and 2)
C11_Witness ==
    /\ Returned
    /\ \E k \in 1..NRows(played) :
          /\ Reached(k) = 2 /\ SrcText(k, "TRB") = "10"
          /\ played.rows[k].v["double_double"] = Int_(1)
          /\ played.rows[k].v["triple_double"] = Int_(0)
    /\ \E k \in 1..NRows(played) :
          /\ Reached(k) \in {3, 5}
          /\ played.rows[k].v["double_double"] = Int_(1)
          /\ played.rows[k].v["triple_double"] = Int_(2)

-----------------------------------------------------------------------------
\* the played rows have been through the fill of lines 212-215 and hold
\* their cell texts still
Filled == pc \in {"date", "result", "mp", "share", "cast"}

\* C12: in every played record every column with '%' in its name holds a
\* number and never the empty text: an empty source cell has become 0, a
\* cell that was not empty keeps its value; so after the fill and on return.
C12_PercentFilled ==
    /\ Filled =>
          \A k \in 1..NRows(played) : \A c \in PercentCols :
              /\ played.rows[k].v[c] # Str("")
              /\ played.rows[k].v[c] =
                     (IF SrcText(k, c) = "" THEN Int_(0) ELSE Str(SrcText(k, c)))
    /\ Returned =>
          \A k \in 1..NRows(played) : \A c \in PercentCols :
              played.rows[k].v[c] =
                  (IF SrcText(k, c) = "" THEN Flt(0) ELSE AsFloat(SrcText(k, c)))

\* a returned record whose FG% was empty and is 0, whose 3P% was .000 and is
\* 0, and whose FT% was .456 and is 0.456
C12_Witness ==
    /\ Returned
    /\ \E k \in 1..NRows(played) :
          /\ SrcText(k, "FG%") = "" /\ played.rows[k].v["FG%"] = Flt(0)
          /\ SrcText(k, "3P%") = ".000" /\ played.rows[k].v["3P%"] = Flt(0)
          /\ SrcText(k, "FT%") = ".456" /\ played.rows[k].v["FT%"] = Flt(456)

-----------------------------------------------------------------------------
\* C13: the empty-to-zero fill applied twice gives what it gives applied
\* once, whatever empty, zero and non-zero cells the percentage columns hold.
C13_FillIdempotent ==
    /\ pc = "fill" => FillPercents(FillPercents(played)) = FillPercents(played)
    /\ pc = "date" => FillPercents(played) = played

\* a filled record set where the fill changed an empty cell and left a zero
\* and a non-zero cell as they were
C13_Witness ==
    /\ pc = "date"
    /\ \E k \in 1..NRows(played) :
          /\ SrcText(k, "FG%") = "" /\ played.rows[k].v["FG%"] = Int_(0)
          /\ played.rows[k].v["2P%"] = Str(".000")
          /\ played.rows[k].v["eFG%"] = Str(".456")

-----------------------------------------------------------------------------
\* the url of the call with the opponent's code where the team's code stood
Alternate ==
    CASE game_args.url = "/boxscores/202410220LAL.html" /\ game_args.team = "LAL"
             -> "/boxscores/202410220BOS.html"
      [] game_args.url = "/boxscores/202410220LAL.html" /\ game_args.team = "BOS"
             -> "/boxscores/202410220LAL.html"
      [] game_args.url = "/boxscores/LAL/202410220LAL.html"
             -> "/boxscores/BOS/202410220BOS.html"
      [] game_args.url = "/boxscores/202410220DEN.html"
             -> "/boxscores/202410220BOS.html"

\* C15: get_game_data fetches at most twice: the requested url first, the
\* alternate url (the opponent's code in place of the team's) only after the
\* requested one failed; no fetch follows a fetch that answered; when both
\* fail the failure leaves the call and no table is selected or parsed.
C15_TwoAttempts ==
    /\ Len(fetches) <= 2
    /\ Len(fetches) >= 1 => fetches[1].url = game_args.url
    /\ Len(fetches) = 2 => ~fetches[1].ok /\ fetches[2].url = Alternate
    /\ \A i \in 1..(Len(fetches) - 1) : ~fetches[i].ok
    /\ (game_pc \in {"select", "team", "opp", "frames"}
           \/ game_outcome \in {"returned", "IndexError", "KeyError"}) =>
           Len(fetches) >= 1 /\ fetches[Len(fetches)].ok
    /\ (Len(fetches) = 2 /\ ~fetches[2].ok) =>
           /\ game_pc = "done" /\ game_outcome = "UnboundLocalError"
           /\ team_table = <<>> /\ opp_table = <<>>
           /\ team_rows = <<>> /\ opp_rows = <<>>

\* the requested url failed, the alternate one answered, and the call returned
\* the rows of both tables
C15_Witness ==
    /\ game_pc = "done" /\ game_outcome = "returned"
    /\ Len(fetches) = 2 /\ ~fetches[1].ok /\ fetches[2].ok
    /\ fetches[1].url = "/boxscores/202410220LAL.html"
    /\ fetches[2].url = "/boxscores/202410220BOS.html"
    /\ team_rows # <<>> /\ opp_rows # <<>>

-----------------------------------------------------------------------------
\* the reader got its page and ran to its end
ReaderDone == reader_pc = "done" /\ reader_outcome # "UnboundLocalError"

ReaderReturned == reader_pc = "done" /\ reader_outcome = "returned"

\* the tables of the page
RegularTable == Found(document, RegId(reader_fn))
PostTable == Found(document, PostId(reader_fn))

\* the rows a reader takes from a table: the body rows without the class
\* thead, and for player_avg_data without the rows of empty cells
Taken(found) ==
    LET Data(tr) == /\ ~tr.thead
                    /\ reader_fn = "player_avg_data" =>
                           \E j \in 1..Len(tr.cells) : tr.cells[j] # ""
    IN  IF found = <<>> THEN <<>> ELSE SelectSeq(found[1].body, Data)

\* C14: when a selector of the call matches no table the call fails as a
\* whole: it returns no frame, neither a full nor a partial one (a call that
\* returns None returns no result).  Stated for the pages whose regular-season
\* table, if there is one, holds rows to return.
C14_TableNotFound ==
    (/\ ReaderDone
     /\ RegularTable = <<>> \/ PostTable = <<>>
     /\ RegularTable # <<>> => Taken(RegularTable) # <<>>)
    => (reader_outcome # "returned" /\ reader_data = NoSheet)

-----------------------------------------------------------------------------
\* the Season Type of the i-th returned row, "" when it has none or several
TagOf(i) ==
    IF Cardinality(Labelled(reader_data, "Season Type")) = 1
    THEN Under(reader_data, reader_data.rows[i], "Season Type").s
    ELSE ""

\* the i-th returned row holds no other date than this one, if the frame has
\* a Date column (a row cut short has '', a row of a table without the column NaN)
DateIs(i, date) ==
    Labelled(reader_data, "Date") # {} =>
        Under(reader_data, reader_data.rows[i], "Date") \in {Str(date), Str(""), NaN}

\* C19: every row a player reader returns carries a Season Type: 'Regular'
\* on the rows of the regular-season table, 'Playoff' on the rows of the
\* post-season table, the regular rows first; with no post-season table every
\* returned row is 'Regular'.
C19_SeasonType ==
    ReaderReturned =>
        /\ Len(reader_data.rows) = Len(Taken(RegularTable)) + Len(Taken(PostTable))
        /\ \A i \in 1..Len(reader_data.rows) :
              IF i <= Len(Taken(RegularTable))
              THEN TagOf(i) = "Regular" /\ DateIs(i, RegularDate)
              ELSE TagOf(i) = "Playoff" /\ DateIs(i, PostDate)
        /\ PostTable = <<>> =>
              \A i \in 1..Len(reader_data.rows) : TagOf(i) = "Regular"

\* player_season_data returned two regular-season rows and a post-season row
C19_Witness ==
    /\ ReaderReturned /\ reader_fn = "player_season_data"
    /\ Len(reader_data.rows) = 3
    /\ TagOf(1) = "Regular" /\ TagOf(2) = "Regular" /\ TagOf(3) = "Playoff"
    /\ Under(reader_data, reader_data.rows[2], "Date") = Str(RegularDate)
    /\ Under(reader_data, reader_data.rows[3], "Date") = Str(PostDate)

-----------------------------------------------------------------------------
\* the labels of the header the frame was read under
HeaderLabels == {header_cols[j] : j \in 1..Len(header_cols)}

\* C20: the frame a reader returns has no column labelled '' and has every
\* other column of the header, whether the header holds no unlabeled column,
\* one or several: a header without one does not make the reader fail.
C20_NoUnlabeled ==
    /\ ReaderReturned =>
          /\ Labelled(reader_data, "") = {}
          /\ \A c \in HeaderLabels \ {""} : Labelled(reader_data, c) # {}
    /\ (ReaderDone /\ reader_outcome = "KeyError") => "Result" \notin HeaderLabels


-----------------------------------------------------------------------------
(* SQLiteClient. *)

\* the rows of a table whose key is not the one of a mapping
OtherKeys(t, m) == t \ SameKey(t, m)

\* C16: after upsert(table, row, conflict_cols) the call has gone through for
\* every row mapping, the one made of the key column alone included: the
\* table holds exactly one row with the key of row, that row holds the value
\* of every column row supplies, it is the inserted row when no row had the
\* key before, and the rows with other keys are the ones from before the call
C16_Upsert ==
    last_call.op = "upsert" =>
        LET m == last_call.rows[1]
        IN  /\ last_result = "ok"
            /\ Cardinality(SameKey(db_file, m)) = 1
            /\ \A r \in SameKey(db_file, m) : \A c \in DOMAIN m : r[c] = m[c]
            /\ SameKey(before_call, m) = {} => Stored(m) \in db_file
            /\ OtherKeys(db_file, m) = OtherKeys(before_call, m)

\* C17: the operations of a transaction() block are committed by the one
\* commit at the end of the block, and when the block raises, the rollback
\* leaves the file as it was when the block was entered and the exception
\* goes on
C17_Transaction ==
    /\ txn_end = "commit" => txn_commits = 1
    /\ txn_end = "rollback" =>
           /\ db_file = at_txn
           /\ db_exc # ""
           /\ db_pc = "raised"

-----------------------------------------------------------------------------
\* the columns of the float-cast list that a frame holds
CastCols(f) == to_convert \cap f.cols

\* a cell of the cast list holds a text still
Uncast(f) ==
    \E i \in 1..NRows(f) : \E c \in CastCols(f) : f.rows[i].v[c].k = "str"

\* a cell of the cast list holds a text that spells no number
NonNumeric(f) ==
    \E i \in 1..NRows(f) : \E c \in CastCols(f) :
        f.rows[i].v[c].k = "str" /\ ~FloatOk(f.rows[i].v[c].s)

\* the cast of lines 253-258 has been reached: Percent Score is in the frame
AtCast == "Percent Score" \in played.cols

-----------------------------------------------------------------------------
\* the played rows are normalized: dropped, filled, split, converted and cast
Normalized == pc = "url"

\* C22: the normalization steps of get_player_data run on their own output
\* raise nothing and change nothing: the drop of at and GS (line 217), the
\* fill (212-215), the split of Result (221-235), the conversion of MP
\* (238-244) and the cast (253-258)
C22_Renormalize ==
    Normalized =>
        /\ DropColsOk(played, {"at", "GS"})
        /\ FillPercents(played) = played
        /\ AllOk(played, "Result", ResultOk)
        /\ AllOk(played, "MP", TimeOk)
        /\ \A i \in 1..NRows(played) : \A c \in to_convert :
               CastOk(played.rows[i].v[c])
        /\ CastAll(played) = played

-----------------------------------------------------------------------------
\* the position in data of the first row that is blank in the six identifying
\* columns
FirstBlank == Least({i \in 1..NRows(data) : IsTotals(data.rows[i])})

\* the index labels of the rows before it
PerGame == {i - 1 : i \in 1..(FirstBlank - 1)}

\* the index labels of the rows of a frame
Labels(f) == {f.rows[i].idx : i \in 1..NRows(f)}

\* C24: the split is the first row that is blank in the identifying columns:
\* once the rows are partitioned, every row before it is in exactly one of
\* the two partitions and no row at or after it is in either; the returned
\* partitions hold as many rows as there are before it, and the played
\* records are made from the started ones among them, in order
C24_SplitPoint ==
    /\ pc = "fill" =>
          /\ Labels(played) \cup Labels(missed) = PerGame
          /\ Labels(played) \cap Labels(missed) = {}
          /\ Cardinality(Labels(played)) = NRows(played)
          /\ Cardinality(Labels(missed)) = NRows(missed)
          /\ \A k \in 1..NRows(played) :
                played.rows[k] = data.rows[played.rows[k].idx + 1]
    /\ Returned =>
          /\ Labels(missed) \subseteq PerGame
          /\ \A k \in 1..NRows(missed) :
                missed.rows[k] = data.rows[missed.rows[k].idx + 1]
          /\ NRows(played) + NRows(missed) = FirstBlank - 1
          /\ LET from == {i \in 1..(FirstBlank - 1) : Started(data.rows[i])}
             IN  /\ NRows(played) = Cardinality(from)
                 /\ \A k \in 1..NRows(played) :
                       \E i \in from :
                           /\ Cardinality({j \in from : j < i}) = k - 1
                           /\ played.rows[k].v["Date"].s = DateOf(data.rows[i].v["Date"].s)
                           /\ played.rows[k].v["Opp"] = data.rows[i].v["Opp"]

\* a return for a log whose first summary row is followed by a game row and
\* a second summary row
C24_Witness ==
    /\ Returned
    /\ FirstBlank < NRows(data)
    /\ \E i \in (FirstBlank + 1)..NRows(data) : Started(data.rows[i])
    /\ \E i \in (FirstBlank + 1)..NRows(data) : IsTotals(data.rows[i])
    /\ NRows(missed) >= 1

-----------------------------------------------------------------------------
\* the place of the first placeholder cell among the first BATCH_SIZE cells,
\* 0 when there is none
PlaceholderAt(cells) ==
    LET at == {p \in 1..Min(Len(cells), BATCH_SIZE) : Lower(cells[p]) \in placeholders}
    IN  IF at = {} THEN 0 ELSE Least(at)

\* the rows of the page: a row ends with its placeholder cell, which spans
\* the rest of the table's width, or holds BATCH_SIZE cells; the last one
\* holds what is left
RECURSIVE SourceRows(_)
SourceRows(cells) ==
    IF cells = <<>> THEN <<>>
    ELSE LET n == IF PlaceholderAt(cells) > 0 THEN PlaceholderAt(cells)
                  ELSE Min(Len(cells), BATCH_SIZE)
         IN  <<SubSeq(cells, 1, n)>> \o SourceRows(SubSeq(cells, n + 1, Len(cells)))

\* the row sat out a game
SatOut(r) == PlaceholderAt(r) > 0

\* C25: once the cells are batched, every row of the page is one batch that
\* starts with the row's own cells, and the batch of a row with a placeholder
\* cell holds BATCH_SIZE cells, blank after the placeholder, wherever the
\* placeholder sits in its row
C25_Placeholders ==
    pc \notin {"fetch", "expand", "batch"} =>
        LET src == SourceRows(table)
        IN  /\ Len(rows) = Len(src)
            /\ \A i \in 1..Len(src) :
                  /\ Len(rows[i]) >= Len(src[i])
                  /\ SubSeq(rows[i], 1, Len(src[i])) = src[i]
                  /\ SatOut(src[i]) =>
                        /\ Len(rows[i]) = BATCH_SIZE
                        /\ \A j \in (Len(src[i]) + 1)..BATCH_SIZE : rows[i][j] = ""

-----------------------------------------------------------------------------
\* double_double and triple_double of a record
Bonuses(v) == <<v["double_double"], v["triple_double"]>>

\* TRB + AST + 0.5*PTS + STL + BLK - TOV of the record v, in ten-thousandths
BaseScore(v) ==
    10 * (v["TRB"].n + v["AST"].n + v["STL"].n + v["BLK"].n - v["TOV"].n)
    + 5 * v["PTS"].n

\* C28: in every returned played record (double_double, triple_double) is
\* (0, 0), (1, 0) or (1, 2), triple_double is not 0 only beside a
\* double_double of 1, and fantasy_score is the base score plus 0, 1 or 3
C28_BonusPairs ==
    Returned =>
        \A k \in 1..NRows(played) :
            LET v == played.rows[k].v
            IN  /\ Bonuses(v) \in {<<Int_(0), Int_(0)>>, <<Int_(1), Int_(0)>>,
                                   <<Int_(1), Int_(2)>>}
                /\ v["triple_double"] # Int_(0) => v["double_double"] = Int_(1)
                /\ v["fantasy_score"].k = "float" =>
                      \E bonus \in {0, 1, 3} :
                          /\ bonus = v["double_double"].n + v["triple_double"].n
                          /\ RoundedTo2(10 * v["fantasy_score"].n,
                                        BaseScore(v) + 10 * Milli * bonus)

\* a return with a record without bonus beside one with both bonuses
C28_Witness ==
    /\ Returned
    /\ \E k \in 1..NRows(played) :
          /\ Bonuses(played.rows[k].v) = <<Int_(0), Int_(0)>>
          /\ RoundedTo2(10 * played.rows[k].v["fantasy_score"].n,
                        BaseScore(played.rows[k].v))
    /\ \E k \in 1..NRows(played) :
          /\ Bonuses(played.rows[k].v) = <<Int_(1), Int_(2)>>
          /\ RoundedTo2(10 * played.rows[k].v["fantasy_score"].n,
                        BaseScore(played.rows[k].v) + 30 * Milli)

-----------------------------------------------------------------------------
\* the body row is a 'Reserves' marker
Marker(tr) == HasPlayer(tr) /\ RowData(tr)["player"] = "Reserves"

NotMarker(tr) == ~Marker(tr)

\* the rows of a body that are no marker, each as its cells by key
Players(body) ==
    LET kept == SelectSeq(body, NotMarker)
    IN  [i \in 1..Len(kept) |-> RowData(kept[i])]

\* parse_box_table has been called on the team's table
TeamParsed == team_table # <<>> /\ game_pc \in {"opp", "frames", "done"}

\* parse_box_table has been called on the opponent's table
OppParsed ==
    /\ team_table # <<>>
    /\ opp_table # <<>>
    /\ game_pc \in {"frames", "done"}
    /\ \A i \in 1..Len(team_table[1]) : HasPlayer(team_table[1][i])

\* C27: parse_box_table returns, in document order, the body rows that are
\* no 'Reserves' marker, the rows without a player cell among them, and
\* raises nothing
C27_BoxRows ==
    /\ TeamParsed => team_rows = Players(team_table[1])
    /\ OppParsed => opp_rows = Players(opp_table[1])
    /\ game_outcome # "KeyError"

-----------------------------------------------------------------------------
\* the steps that go through connect(): the calls of connect, of the property
\* conn and of the methods that use it
Openers == {"__enter__", "connect", "query", "execute", "insert", "upsert",
            "executemany", "commit", "rollback"}

\* C30: the client holds at most one open connection, and holds one exactly
\* when _conn is set; a step through connect() on a connected client opens
\* nothing, on a client without connection it opens exactly one; close()
\* on a client without connection leaves it without one
C30_OneConnection ==
    /\ db_open <= 1
    /\ (db_conn = "open") <=> (db_open = 1)
    /\ (last_conn.op \in Openers /\ last_conn.before = "open") =>
           last_conn.opened = 0 /\ db_conn = "open"
    /\ (last_conn.op \in Openers /\ last_conn.before = "none") =>
           last_conn.opened = 1 /\ db_conn = "open"
    /\ last_conn.op \in {"close", "__exit__"} =>
           last_conn.opened = 0 /\ db_conn = "none" /\ db_open = 0

\* a query in the body of the with block after a close(): it found no
\* connection and opened one
C30_Witness ==
    /\ InBody
    /\ last_conn = [op |-> "query", before |-> "none", opened |-> 1]
    /\ db_conn = "open"
    /\ db_open = 1

-----------------------------------------------------------------------------
\* the last row of the header section of a table that has one
LastHeaderRow(t) == t.thead[Len(t.thead)]

\* C26: the column names a reader takes from the regular-season table are
\* the texts of the last row of the table's header section, and the frame it
\* builds holds a column for each of them: for a stacked header the final
\* row, for a single header row that row
C26_LastHeaderRow ==
    (reader_pc = "post" /\ RegularTable[1].thead # <<>>) =>
        /\ header_cols = LastHeaderRow(RegularTable[1])
        /\ SubSeq(regular_frame.cols, 1, Len(header_cols))
               = LastHeaderRow(RegularTable[1])

-----------------------------------------------------------------------------
(* The team readers. *)

\* C29: team_historical_data, team_season_data, team_avg_data and
\* team_per36_data look the code up in the team list first: called with a code
\* the list has not they fetch nothing and return no data, and every fetch they
\* make is for a code of the list.
C29_TeamListFirst ==
    team_fn \in TeamReaders =>
        /\ \A i \in 1..Len(team_fetched) :
              \E k \in 1..Len(teams) : teams[k] = team_fetched[i].team
        /\ (\A k \in 1..Len(teams) : teams[k] # team_arg) =>
              /\ team_pc \in {"check", "done"}
              /\ team_fetched = <<>>
              /\ team_frame = NoSheet
              /\ team_pc = "done" => team_outcome = "returned None"

\* a team reader has returned from a call with a code the list has not
C29_Witness ==
    /\ team_fn \in TeamReaders
    /\ team_arg = "BRK"
    /\ team_pc = "done"
    /\ team_outcome = "returned None"

\* the reader found its table on the page it fetched and went over its rows
RowsRead ==
    /\ team_pc = "done"
    /\ team_fetched # <<>> /\ team_fetched[Len(team_fetched)].answered
    /\ TeamTable # <<>>

\* the rows of the body section that do not carry the class thead, in
\* document order
RECURSIVE DataRows(_)
DataRows(trs) ==
    IF trs = <<>> THEN <<>>
    ELSE IF Head(trs).section = "tbody" /\ "thead" \notin Head(trs).class
    THEN <<Head(trs)>> \o DataRows(Tail(trs))
    ELSE DataRows(Tail(trs))

\* C23: every table reader emits exactly the body rows that do not carry the
\* class thead, in document order, each as the texts of its first NUM_COLS
\* cells followed by empty strings up to NUM_COLS; a row of empty cells is
\* emitted and nothing but a header repeat is left out.
C23_RowExtractor ==
    RowsRead =>
        LET want == DataRows(TeamTable[1].rows)
            n == Len(team_cols)
        IN  /\ team_outcome = "returned"
            /\ Len(team_frame.rows) = Len(want)
            /\ \A i \in 1..Len(want) : i <= Len(team_frame.rows) =>
                  /\ Len(team_frame.rows[i]) = n
                  /\ \A j \in 1..n :
                        team_frame.rows[i][j] =
                            IF j <= Len(want[i].cells)
                            THEN Str(want[i].cells[j].text) ELSE Str("")

=============================================================================
